---- MODULE Spec2Model ----
(***************************************************************************)
(* The legacy temporal types of src/common/backend/utils/adt/nabstime.cpp: *)
(* AbsoluteTime, RelativeTime and TimeInterval; their comparators, their   *)
(* constructors and codecs, and the arithmetic between them.               *)
(*                                                                         *)
(* Every entry point is a pure function of its arguments.  The state of    *)
(* the model is one call: the arguments, the entry point that was called   *)
(* (op) and what it returned (result).  Init draws the arguments; one      *)
(* action per entry point applies it.                                      *)
(*                                                                         *)
(* AbsoluteTime and RelativeTime are int32.  The model keeps the full      *)
(* 32-bit range and draws the values from the neighbourhoods of the        *)
(* reserved values and of zero; add32/sub32 give the two's complement      *)
(* result of the C operators without leaving the 32-bit range themselves.  *)
(***************************************************************************)
EXTENDS Integers, Sequences, FiniteSets

VARIABLES
    op,       \* the entry point that was called, "none" before the call
    t1, t2,   \* the scalar arguments (AbsoluteTime / RelativeTime)
    i1, i2,   \* the TimeInterval arguments
    buf,      \* the StringInfo message of a receive function: int32 words
    str,      \* the cstring argument of an input function
    CTimeZone, \* the session's zone, in seconds west of Greenwich
    arg,      \* an argument of another type: Interval, Timestamp, struct pg_tm
    result    \* what the call returned

vars == <<op, t1, t2, i1, i2, buf, str, CTimeZone, arg, result>>

(***************************************************************************)
(* Bounds of the model.                                                    *)
(***************************************************************************)
\* how far around each reserved value (and around zero) the arguments range
Near == 2

(***************************************************************************)
(* int32                                                                   *)
(***************************************************************************)
INT_MAX == 2147483647
INT_MIN == -INT_MAX - 1

\* a + b leaves the int32 range
AddOverflows(a, b) ==
    \/ b > 0 /\ a > INT_MAX - b
    \/ b < 0 /\ a < INT_MIN - b

\* a - b leaves the int32 range
SubOverflows(a, b) ==
    \/ b < 0 /\ a > INT_MAX + b
    \/ b > 0 /\ a < INT_MIN + b

\* the int32 result of a + b (two's complement, as the build's -fwrapv gives)
add32(a, b) ==
    IF b > 0 /\ a > INT_MAX - b THEN (a - INT_MAX - 1) + (b - INT_MAX - 1)
    ELSE IF b < 0 /\ a < INT_MIN - b THEN (a + INT_MAX + 1) + (b + INT_MAX + 1)
    ELSE a + b

\* the int32 result of a - b
sub32(a, b) ==
    IF b < 0 /\ a > INT_MAX + b THEN (a - INT_MAX - 1) - (b + INT_MAX + 1)
    ELSE IF b > 0 /\ a < INT_MIN + b THEN (a + INT_MAX + 1) - (b - INT_MAX - 1)
    ELSE a - b

(***************************************************************************)
(* The reserved values (utils/nabstime.h).                                 *)
(***************************************************************************)
INVALID_ABSTIME == INT_MAX - 1
NOEND_ABSTIME == INT_MAX - 3
NOSTART_ABSTIME == INT_MIN
INVALID_RELTIME == INT_MIN

AbsoluteTimeIsReal(time) == time < NOEND_ABSTIME /\ time # NOSTART_ABSTIME
RelativeTimeIsValid(time) == time # INVALID_RELTIME

T_INTERVAL_INVAL == 0
T_INTERVAL_VALID == 1

(***************************************************************************)
(* The values the arguments are drawn from.                                *)
(***************************************************************************)
Int32Values ==
    {INT_MIN + k : k \in 0 .. Near} \cup (-Near .. Near) \cup {3, 5}
        \cup {NOEND_ABSTIME + k : k \in -Near .. 3}

TimeIntervalData(status, start, end) ==
    [status |-> status, data |-> <<start, end>>]

NoInterval == TimeIntervalData(T_INTERVAL_INVAL, 0, 0)

(***************************************************************************)
(* What a call returns.                                                    *)
(***************************************************************************)
NoResult ==
    [kind |-> "none", val |-> 0, flag |-> FALSE, iv |-> NoInterval, msg |-> <<>>]
IntResult(n) ==
    [kind |-> "int", val |-> n, flag |-> FALSE, iv |-> NoInterval, msg |-> <<>>]
BoolResult(b) ==
    [kind |-> "bool", val |-> 0, flag |-> b, iv |-> NoInterval, msg |-> <<>>]
IntervalResult(i) ==
    [kind |-> "tinterval", val |-> 0, flag |-> FALSE, iv |-> i, msg |-> <<>>]
\* ereport(ERROR, ...): the call returns nothing
ErrorResult(code) ==
    [kind |-> code, val |-> 0, flag |-> FALSE, iv |-> NoInterval, msg |-> <<>>]
\* ereport(ERROR, ... errmsg("...: \"%s\"", s)): the message quotes the text s
ErrorAbout(code, s) == [ErrorResult(code) EXCEPT !.msg = s]

(***************************************************************************)
(* abstime comparison routines                                             *)
(***************************************************************************)
\* mutant: INVALID is not singled out, the operands are compared as integers
abstime_cmp_numeric(a, b) ==
    IF a > b THEN 1 ELSE IF a = b THEN 0 ELSE -1

\* mutant: INVALID sorts before every other value instead of after
abstime_cmp_invalid_first(a, b) ==
    IF a = INVALID_ABSTIME
    THEN (IF b = INVALID_ABSTIME THEN 0 ELSE -1)
    ELSE IF b = INVALID_ABSTIME THEN 1
    ELSE IF a > b THEN 1
    ELSE IF a = b THEN 0
    ELSE -1

abstime_cmp_internal(a, b) ==
    IF a = INVALID_ABSTIME
    THEN (IF b = INVALID_ABSTIME THEN 0 ELSE 1)
    ELSE IF b = INVALID_ABSTIME THEN -1
    ELSE IF a > b THEN 1
    ELSE IF a = b THEN 0
    ELSE -1

abstimeeq(a, b) == abstime_cmp_internal(a, b) = 0
abstimene(a, b) == abstime_cmp_internal(a, b) # 0
abstimelt(a, b) == abstime_cmp_internal(a, b) < 0
abstimegt(a, b) == abstime_cmp_internal(a, b) > 0
abstimele(a, b) == abstime_cmp_internal(a, b) <= 0
abstimege(a, b) == abstime_cmp_internal(a, b) >= 0
btabstimecmp(a, b) == abstime_cmp_internal(a, b)

(***************************************************************************)
(* reltime comparison routines                                             *)
(***************************************************************************)
\* mutant: the inner test is lost, INVALID compares greater than INVALID
reltime_cmp_invalid_unequal(a, b) ==
    IF a = INVALID_RELTIME THEN 1
    ELSE IF b = INVALID_RELTIME THEN -1
    ELSE IF a > b THEN 1
    ELSE IF a = b THEN 0
    ELSE -1

reltime_cmp_internal(a, b) ==
    IF a = INVALID_RELTIME
    THEN (IF b = INVALID_RELTIME THEN 0 ELSE 1)
    ELSE IF b = INVALID_RELTIME THEN -1
    ELSE IF a > b THEN 1
    ELSE IF a = b THEN 0
    ELSE -1

reltimeeq(a, b) == reltime_cmp_internal(a, b) = 0
reltimene(a, b) == reltime_cmp_internal(a, b) # 0
reltimelt(a, b) == reltime_cmp_internal(a, b) < 0
reltimegt(a, b) == reltime_cmp_internal(a, b) > 0
reltimele(a, b) == reltime_cmp_internal(a, b) <= 0
reltimege(a, b) == reltime_cmp_internal(a, b) >= 0
btreltimecmp(a, b) == reltime_cmp_internal(a, b)

(***************************************************************************)
(* tinterval comparison routines: by length only                           *)
(***************************************************************************)
\* mutant: intervals of equal length are told apart by their start
tinterval_cmp_by_position(a, b) ==
    LET a_invalid == \/ a.status = T_INTERVAL_INVAL
                     \/ a.data[1] = INVALID_ABSTIME
                     \/ a.data[2] = INVALID_ABSTIME
        b_invalid == \/ b.status = T_INTERVAL_INVAL
                     \/ b.data[1] = INVALID_ABSTIME
                     \/ b.data[2] = INVALID_ABSTIME
        a_len == sub32(a.data[2], a.data[1])
        b_len == sub32(b.data[2], b.data[1])
    IN  IF a_invalid
        THEN (IF b_invalid THEN 0 ELSE 1)
        ELSE IF b_invalid THEN -1
        ELSE IF a_len > b_len THEN 1
        ELSE IF a_len < b_len THEN -1
        ELSE IF a.data[1] > b.data[1] THEN 1
        ELSE IF a.data[1] = b.data[1] THEN 0
        ELSE -1

tinterval_cmp_internal(a, b) ==
    LET a_invalid == \/ a.status = T_INTERVAL_INVAL
                     \/ a.data[1] = INVALID_ABSTIME
                     \/ a.data[2] = INVALID_ABSTIME
        b_invalid == \/ b.status = T_INTERVAL_INVAL
                     \/ b.data[1] = INVALID_ABSTIME
                     \/ b.data[2] = INVALID_ABSTIME
        a_len == sub32(a.data[2], a.data[1])
        b_len == sub32(b.data[2], b.data[1])
    IN  IF a_invalid
        THEN (IF b_invalid THEN 0 ELSE 1)
        ELSE IF b_invalid THEN -1
        ELSE IF a_len > b_len THEN 1
        ELSE IF a_len = b_len THEN 0
        ELSE -1

tintervaleq(a, b) == tinterval_cmp_internal(a, b) = 0
tintervalne(a, b) == tinterval_cmp_internal(a, b) # 0
tintervallt(a, b) == tinterval_cmp_internal(a, b) < 0
tintervalle(a, b) == tinterval_cmp_internal(a, b) <= 0
tintervalgt(a, b) == tinterval_cmp_internal(a, b) > 0
tintervalge(a, b) == tinterval_cmp_internal(a, b) >= 0
bttintervalcmp(a, b) == tinterval_cmp_internal(a, b)

(***************************************************************************)
(* The calendar bridge (utils/datetime.h, datetime.c, pgtime.h): external  *)
(* to nabstime.cpp.  A fixed-offset zone stands for the session zone.      *)
(***************************************************************************)
MONTHS_PER_YEAR == 12
HOURS_PER_DAY == 24
MINS_PER_HOUR == 60
SECS_PER_MINUTE == 60
SECS_PER_HOUR == 3600
SECS_PER_DAY == 86400
UNIX_EPOCH_JDATE == 2440588

\* calendar date to Julian day
date2j(y, m, d) ==
    LET mm == IF m > 2 THEN m + 1 ELSE m + 13
        yy == IF m > 2 THEN y + 4800 ELSE y + 4799
        century == yy \div 100
    IN  yy * 365 - 32167 + yy \div 4 - century + century \div 4
            + (7834 * mm) \div 256 + d

\* Julian day to calendar date
j2date(jd) ==
    LET julian0 == jd + 32044
        quad0 == julian0 \div 146097
        extra == (julian0 - quad0 * 146097) * 4 + 3
        julian1 == julian0 + 60 + quad0 * 3 + extra \div 146097
        quad1 == julian1 \div 1461
        julian2 == julian1 - quad1 * 1461
        y0 == (julian2 * 4) \div 1461
        julian3 == (IF y0 # 0 THEN (julian2 + 305) % 365
                              ELSE (julian2 + 306) % 366) + 123
        quad2 == (julian3 * 2141) \div 65536
    IN  [year |-> y0 + quad1 * 4 - 4800,
         mon |-> ((quad2 + 10) % MONTHS_PER_YEAR) + 1,
         mday |-> julian3 - (7834 * quad2) \div 256]

pg_tm(year, mon, mday, hour, min, sec) ==
    [tm_year |-> year, tm_mon |-> mon, tm_mday |-> mday,
     tm_hour |-> hour, tm_min |-> min, tm_sec |-> sec]

NoTm == pg_tm(0, 0, 0, 0, 0, 0)

\* pg_gmtime of (time - zone), time an int32 and zone the seconds west of
\* Greenwich: the broken-down local time.  The difference is a 64-bit
\* pg_time_t in the code; here it is kept as a day (local_day, counted from
\* 1 January 1970) and a second of the day.
local_day(time, zone) ==
    (time \div SECS_PER_DAY)
        + (((time % SECS_PER_DAY) - zone) \div SECS_PER_DAY)

pg_gmtime(time, zone) ==
    LET day == local_day(time, zone)
        sod == ((time % SECS_PER_DAY) - zone) % SECS_PER_DAY
        date == j2date(day + UNIX_EPOCH_JDATE)
    IN  pg_tm(date.year, date.mon, date.mday, sod \div SECS_PER_HOUR,
              (sod % SECS_PER_HOUR) \div SECS_PER_MINUTE, sod % SECS_PER_MINUTE)

(***************************************************************************)
(* abstime2tm, tm2abstime                                                  *)
(***************************************************************************)
MIN_DAYNUM == -24856
MAX_DAYNUM == 24854

\* abstime2tm(_time, &tz, tm, &tzn) under the session zone CTimeZone:
\* the calendar fields and *tzp
abstime2tm(time, zone) ==
    [tm |-> pg_gmtime(time, zone), tz |-> zone]

\* the int32 product n * 60, for n within a day of the int32 limits / 60
mul32_60(n) ==
    IF n > INT_MAX \div SECS_PER_MINUTE
    THEN add32((n - HOURS_PER_DAY * MINS_PER_HOUR) * SECS_PER_MINUTE, SECS_PER_DAY)
    ELSE IF n < -(INT_MAX \div SECS_PER_MINUTE)
    THEN add32((n + HOURS_PER_DAY * MINS_PER_HOUR) * SECS_PER_MINUTE, -SECS_PER_DAY)
    ELSE n * SECS_PER_MINUTE

\* mutant: the day limit is the day the int32 range ends in (19 January 2038)
tm2abstime_whole_range(tm, tz) ==
    IF \/ tm.tm_year < 1901 \/ tm.tm_year > 2038
       \/ tm.tm_mon < 1 \/ tm.tm_mon > MONTHS_PER_YEAR
       \/ tm.tm_mday < 1 \/ tm.tm_mday > 31
       \/ tm.tm_hour < 0 \/ tm.tm_hour > HOURS_PER_DAY
       \/ (tm.tm_hour = HOURS_PER_DAY /\ (tm.tm_min > 0 \/ tm.tm_sec > 0))
       \/ tm.tm_min < 0 \/ tm.tm_min > MINS_PER_HOUR - 1
       \/ tm.tm_sec < 0 \/ tm.tm_sec > SECS_PER_MINUTE
    THEN INVALID_ABSTIME
    ELSE
        LET day == date2j(tm.tm_year, tm.tm_mon, tm.tm_mday) - UNIX_EPOCH_JDATE
            sec == add32(tm.tm_sec + tz,
                         mul32_60(tm.tm_min
                                  + (day * HOURS_PER_DAY + tm.tm_hour) * MINS_PER_HOUR))
        IN  IF day < MIN_DAYNUM \/ day > MAX_DAYNUM + 1 THEN INVALID_ABSTIME
            ELSE IF \/ day >= MAX_DAYNUM - 10 /\ sec < 0
                    \/ day <= MIN_DAYNUM + 10 /\ sec > 0 THEN INVALID_ABSTIME
            ELSE IF ~AbsoluteTimeIsReal(sec) THEN INVALID_ABSTIME
            ELSE sec

\* mutant: the sign of the sum is not tested
tm2abstime_no_slop(tm, tz) ==
    IF \/ tm.tm_year < 1901 \/ tm.tm_year > 2038
       \/ tm.tm_mon < 1 \/ tm.tm_mon > MONTHS_PER_YEAR
       \/ tm.tm_mday < 1 \/ tm.tm_mday > 31
       \/ tm.tm_hour < 0 \/ tm.tm_hour > HOURS_PER_DAY
       \/ (tm.tm_hour = HOURS_PER_DAY /\ (tm.tm_min > 0 \/ tm.tm_sec > 0))
       \/ tm.tm_min < 0 \/ tm.tm_min > MINS_PER_HOUR - 1
       \/ tm.tm_sec < 0 \/ tm.tm_sec > SECS_PER_MINUTE
    THEN INVALID_ABSTIME
    ELSE
        LET day == date2j(tm.tm_year, tm.tm_mon, tm.tm_mday) - UNIX_EPOCH_JDATE
            sec == add32(tm.tm_sec + tz,
                         mul32_60(tm.tm_min
                                  + (day * HOURS_PER_DAY + tm.tm_hour) * MINS_PER_HOUR))
        IN  IF day < MIN_DAYNUM \/ day > MAX_DAYNUM THEN INVALID_ABSTIME
            ELSE IF ~AbsoluteTimeIsReal(sec) THEN INVALID_ABSTIME
            ELSE sec

tm2abstime(tm, tz) ==
    IF \/ tm.tm_year < 1901 \/ tm.tm_year > 2038
       \/ tm.tm_mon < 1 \/ tm.tm_mon > MONTHS_PER_YEAR
       \/ tm.tm_mday < 1 \/ tm.tm_mday > 31
       \/ tm.tm_hour < 0 \/ tm.tm_hour > HOURS_PER_DAY
       \/ (tm.tm_hour = HOURS_PER_DAY /\ (tm.tm_min > 0 \/ tm.tm_sec > 0))
       \/ tm.tm_min < 0 \/ tm.tm_min > MINS_PER_HOUR - 1
       \/ tm.tm_sec < 0 \/ tm.tm_sec > SECS_PER_MINUTE
    THEN INVALID_ABSTIME
    ELSE
        LET day == date2j(tm.tm_year, tm.tm_mon, tm.tm_mday) - UNIX_EPOCH_JDATE
            sec == add32(tm.tm_sec + tz,
                         mul32_60(tm.tm_min
                                  + (day * HOURS_PER_DAY + tm.tm_hour) * MINS_PER_HOUR))
        IN  IF day < MIN_DAYNUM \/ day > MAX_DAYNUM THEN INVALID_ABSTIME
            ELSE IF \/ day >= MAX_DAYNUM - 10 /\ sec < 0
                    \/ day <= MIN_DAYNUM + 10 /\ sec > 0 THEN INVALID_ABSTIME
            ELSE IF ~AbsoluteTimeIsReal(sec) THEN INVALID_ABSTIME
            ELSE sec

(***************************************************************************)
(* Text.  A cstring is a sequence of elements: a blank, a bracket, a       *)
(* double quote, or a run of characters that the date/time routines        *)
(* (EncodeDateTime; ParseDateTime and DecodeDateTime) write and read as    *)
(* one date/time text, kept as what they decode it to: the dtype, the      *)
(* calendar fields and the zone offset.                                    *)
(***************************************************************************)
Chr(c) == [c |-> c, dtype |-> "", tm |-> NoTm, tz |-> 0]

DateTimeText(dtype, tm, tz) == [c |-> "text", dtype |-> dtype, tm |-> tm, tz |-> tz]

IsSpace(e) == e.c = " "

\* abstimeout(): the text of an abstime under the session zone
abstimeout(time, zone) ==
    CASE time = INVALID_ABSTIME -> <<DateTimeText("DTK_INVALID", NoTm, 0)>>
      [] time = NOEND_ABSTIME -> <<DateTimeText("DTK_LATE", NoTm, 0)>>
      [] time = NOSTART_ABSTIME -> <<DateTimeText("DTK_EARLY", NoTm, 0)>>
      [] OTHER ->
            LET broken == abstime2tm(time, zone)
            IN  <<DateTimeText("DTK_DATE", broken.tm, broken.tz)>>

\* abstimein(): decode a date/time string and return the abstime
abstimein(s) ==
    LET field == SelectSeq(s, LAMBDA e : ~IsSpace(e))
    IN  IF Len(field) # 1 \/ field[1].c # "text"
        THEN ErrorAbout("invalid input syntax for type abstime", s)
        ELSE CASE field[1].dtype = "DTK_DATE" ->
                      IntResult(tm2abstime(field[1].tm, field[1].tz))
               [] field[1].dtype = "DTK_EPOCH" -> IntResult(0)
               [] field[1].dtype = "DTK_LATE" -> IntResult(NOEND_ABSTIME)
               [] field[1].dtype = "DTK_EARLY" -> IntResult(NOSTART_ABSTIME)
               [] field[1].dtype = "DTK_INVALID" -> IntResult(INVALID_ABSTIME)
               [] OTHER -> ErrorAbout("unexpected dtype while parsing abstime", s)

(***************************************************************************)
(* The wire (libpq/pqformat.h): an int32 is four bytes, most significant   *)
(* first.                                                                  *)
(***************************************************************************)
\* the four bytes of an int32 in network order
pq_sendint32(n) ==
    LET low == IF n < 0 THEN n - INT_MIN ELSE n
        top == IF n < 0 THEN 128 ELSE 0
    IN  <<top + low \div 16777216, (low \div 65536) % 256,
          (low \div 256) % 256, low % 256>>

\* the int32 that four bytes of a message hold
pq_getmsgint(b) ==
    LET low == ((b[1] % 128) * 16777216) + (b[2] * 65536) + (b[3] * 256) + b[4]
    IN  IF b[1] >= 128 THEN INT_MIN + low ELSE low

abstimesend(time) == pq_sendint32(time)

abstimerecv(b) ==
    IF Len(b) < 4 THEN ErrorResult("insufficient data left in message")
    ELSE IntResult(pq_getmsgint(SubSeq(b, 1, 4)))

(***************************************************************************)
(* parsetinterval, tintervalin, mktinterval, tintervalrecv, tintervalsend  *)
(***************************************************************************)
INVALID_INTERVAL_STR == "Undefined Range"

ABSTIMEMIN(a, b) == IF abstimele(a, b) THEN a ELSE b
ABSTIMEMAX(a, b) == IF abstimelt(a, b) THEN b ELSE a

\* the position of the first element of s at or after p that is no blank;
\* Len(s) + 1 stands for the terminating '\0'
RECURSIVE SkipBlanks(_, _)
SkipBlanks(s, p) ==
    IF p > Len(s) THEN p
    ELSE IF IsSpace(s[p]) THEN SkipBlanks(s, p + 1)
    ELSE p

\* the position of the first double quote of s at or after p
RECURSIVE FindQuote(_, _)
FindQuote(s, p) ==
    IF p > Len(s) THEN p
    ELSE IF s[p].c = "\"" THEN p
    ELSE FindQuote(s, p + 1)

\* what parsetinterval leaves in *i_start and *i_end
Parsed(i_start, i_end) ==
    [kind |-> "parsed", val |-> 0, flag |-> FALSE,
     iv |-> TimeIntervalData(T_INTERVAL_INVAL, i_start, i_end), msg |-> <<>>]

\* the label bogus
Bogus(i_string) == ErrorAbout("invalid input syntax for type tinterval", i_string)

\* mutant: blanks may follow the closing bracket
parsetinterval_trailing_blanks(i_string) ==
    LET n == Len(i_string)
        bracket == SkipBlanks(i_string, 1)
        quote1 == SkipBlanks(i_string, bracket + 1)
        end1 == FindQuote(i_string, quote1 + 1)
        first == abstimein(SubSeq(i_string, quote1 + 1, end1 - 1))
        quote2 == SkipBlanks(i_string, end1 + 1)
        end2 == FindQuote(i_string, quote2 + 1)
        second == abstimein(SubSeq(i_string, quote2 + 1, end2 - 1))
        close == SkipBlanks(i_string, end2 + 1)
    IN  IF bracket > n \/ i_string[bracket].c # "[" THEN Bogus(i_string)
        ELSE IF quote1 > n \/ i_string[quote1].c # "\"" THEN Bogus(i_string)
        ELSE IF quote1 + 1 <= n /\ i_string[quote1 + 1].c = INVALID_INTERVAL_STR
        THEN Bogus(i_string)
        ELSE IF end1 > n THEN Bogus(i_string)
        ELSE IF first.kind # "int" THEN first
        ELSE IF quote2 > n \/ i_string[quote2].c # "\"" THEN Bogus(i_string)
        ELSE IF end2 > n THEN Bogus(i_string)
        ELSE IF second.kind # "int" THEN second
        ELSE IF close > n \/ i_string[close].c # "]" THEN Bogus(i_string)
        ELSE IF SkipBlanks(i_string, close + 1) <= n THEN Bogus(i_string)
        ELSE Parsed(first.val, second.val)

\* parsetinterval -- parse a tinterval string
parsetinterval(i_string) ==
    LET n == Len(i_string)
        bracket == SkipBlanks(i_string, 1)
        quote1 == SkipBlanks(i_string, bracket + 1)
        end1 == FindQuote(i_string, quote1 + 1)
        first == abstimein(SubSeq(i_string, quote1 + 1, end1 - 1))
        quote2 == SkipBlanks(i_string, end1 + 1)
        end2 == FindQuote(i_string, quote2 + 1)
        second == abstimein(SubSeq(i_string, quote2 + 1, end2 - 1))
        close == SkipBlanks(i_string, end2 + 1)
    IN  IF bracket > n \/ i_string[bracket].c # "[" THEN Bogus(i_string)
        ELSE IF quote1 > n \/ i_string[quote1].c # "\"" THEN Bogus(i_string)
        ELSE IF quote1 + 1 <= n /\ i_string[quote1 + 1].c = INVALID_INTERVAL_STR
        THEN Bogus(i_string)
        ELSE IF end1 > n THEN Bogus(i_string)
        ELSE IF first.kind # "int" THEN first
        ELSE IF quote2 > n \/ i_string[quote2].c # "\"" THEN Bogus(i_string)
        ELSE IF end2 > n THEN Bogus(i_string)
        ELSE IF second.kind # "int" THEN second
        ELSE IF close > n \/ i_string[close].c # "]" THEN Bogus(i_string)
        ELSE IF close + 1 <= n THEN Bogus(i_string)
        ELSE Parsed(first.val, second.val)

\* tintervalin - converts a tinterval string to internal format
tintervalin(tintervalstr) ==
    LET parsed == parsetinterval(tintervalstr)
        first == parsed.iv.data[1]
        second == parsed.iv.data[2]
    IN  IF parsed.kind # "parsed" THEN parsed
        ELSE IntervalResult(TimeIntervalData(
                 IF first = INVALID_ABSTIME \/ second = INVALID_ABSTIME
                 THEN T_INTERVAL_INVAL ELSE T_INTERVAL_VALID,
                 ABSTIMEMIN(first, second), ABSTIMEMAX(first, second)))

\* tintervalout - converts an internal tinterval format to a string
tintervalout(tinterval, zone) ==
    <<Chr("["), Chr("\"")>>
        \o (IF tinterval.status = T_INTERVAL_INVAL
            THEN <<Chr(INVALID_INTERVAL_STR)>>
            ELSE abstimeout(tinterval.data[1], zone)
                     \o <<Chr("\""), Chr(" "), Chr("\"")>>
                     \o abstimeout(tinterval.data[2], zone))
        \o <<Chr("\""), Chr("]")>>

\* mktinterval - creates a time interval with endpoints a and b; palloc is
\* what the allocated TimeIntervalData holds before anything is stored
mktinterval(a, b, palloc) ==
    LET tstart == ABSTIMEMIN(a, b)
        tend == ABSTIMEMAX(a, b)
    IN  IF a = INVALID_ABSTIME \/ b = INVALID_ABSTIME
        THEN [palloc EXCEPT !.status = T_INTERVAL_INVAL]
        ELSE TimeIntervalData(T_INTERVAL_VALID, tstart, tend)

\* mutant: the status is recomputed from the first endpoint alone
tintervalrecv_first_only(b) ==
    IF Len(b) < 12 THEN ErrorResult("insufficient data left in message")
    ELSE
        LET tinterval == TimeIntervalData(pq_getmsgint(SubSeq(b, 1, 4)),
                                          pq_getmsgint(SubSeq(b, 5, 8)),
                                          pq_getmsgint(SubSeq(b, 9, 12)))
            status == IF tinterval.data[1] = INVALID_ABSTIME
                      THEN T_INTERVAL_INVAL ELSE T_INTERVAL_VALID
        IN  IF status # tinterval.status
            THEN ErrorResult("invalid status in external tinterval value")
            ELSE IntervalResult(tinterval)

\* tintervalrecv - converts external binary format to tinterval
tintervalrecv(b) ==
    IF Len(b) < 12 THEN ErrorResult("insufficient data left in message")
    ELSE
        LET tinterval == TimeIntervalData(pq_getmsgint(SubSeq(b, 1, 4)),
                                          pq_getmsgint(SubSeq(b, 5, 8)),
                                          pq_getmsgint(SubSeq(b, 9, 12)))
            status == IF \/ tinterval.data[1] = INVALID_ABSTIME
                         \/ tinterval.data[2] = INVALID_ABSTIME
                      THEN T_INTERVAL_INVAL ELSE T_INTERVAL_VALID
        IN  IF status # tinterval.status
            THEN ErrorResult("invalid status in external tinterval value")
            ELSE IntervalResult(tinterval)

\* tintervalsend - converts tinterval to binary format
tintervalsend(tinterval) ==
    pq_sendint32(tinterval.status) \o pq_sendint32(tinterval.data[1])
        \o pq_sendint32(tinterval.data[2])

(***************************************************************************)
(* The comparators as entry points.  One call per behaviour: the           *)
(* arguments are those of Init, result is what the entry point returned.   *)
(***************************************************************************)
Return(name, r) ==
    /\ op' = name
    /\ result' = r
    /\ UNCHANGED <<t1, t2, i1, i2, buf, str, CTimeZone, arg>>

Abstimeeq ==
    /\ op = "none"
    /\ Return("abstimeeq", BoolResult(abstimeeq(t1, t2)))

Abstimene ==
    /\ op = "none"
    /\ Return("abstimene", BoolResult(abstimene(t1, t2)))

Abstimelt ==
    /\ op = "none"
    /\ Return("abstimelt", BoolResult(abstimelt(t1, t2)))

Abstimegt ==
    /\ op = "none"
    /\ Return("abstimegt", BoolResult(abstimegt(t1, t2)))

Abstimele ==
    /\ op = "none"
    /\ Return("abstimele", BoolResult(abstimele(t1, t2)))

Abstimege ==
    /\ op = "none"
    /\ Return("abstimege", BoolResult(abstimege(t1, t2)))

Btabstimecmp ==
    /\ op = "none"
    /\ Return("btabstimecmp", IntResult(btabstimecmp(t1, t2)))


Reltimeeq ==
    /\ op = "none"
    /\ Return("reltimeeq", BoolResult(reltimeeq(t1, t2)))

Reltimene ==
    /\ op = "none"
    /\ Return("reltimene", BoolResult(reltimene(t1, t2)))

Reltimelt ==
    /\ op = "none"
    /\ Return("reltimelt", BoolResult(reltimelt(t1, t2)))

Reltimegt ==
    /\ op = "none"
    /\ Return("reltimegt", BoolResult(reltimegt(t1, t2)))

Reltimele ==
    /\ op = "none"
    /\ Return("reltimele", BoolResult(reltimele(t1, t2)))

Reltimege ==
    /\ op = "none"
    /\ Return("reltimege", BoolResult(reltimege(t1, t2)))

Btreltimecmp ==
    /\ op = "none"
    /\ Return("btreltimecmp", IntResult(btreltimecmp(t1, t2)))


Tintervaleq ==
    /\ op = "none"
    /\ Return("tintervaleq", BoolResult(tintervaleq(i1, i2)))

Tintervalne ==
    /\ op = "none"
    /\ Return("tintervalne", BoolResult(tintervalne(i1, i2)))

Tintervallt ==
    /\ op = "none"
    /\ Return("tintervallt", BoolResult(tintervallt(i1, i2)))

Tintervalle ==
    /\ op = "none"
    /\ Return("tintervalle", BoolResult(tintervalle(i1, i2)))

Tintervalgt ==
    /\ op = "none"
    /\ Return("tintervalgt", BoolResult(tintervalgt(i1, i2)))

Tintervalge ==
    /\ op = "none"
    /\ Return("tintervalge", BoolResult(tintervalge(i1, i2)))

Bttintervalcmp ==
    /\ op = "none"
    /\ Return("bttintervalcmp", IntResult(bttintervalcmp(i1, i2)))


\* the endpoints and the status words the TimeInterval arguments are built of
Endpoints ==
    {NOSTART_ABSTIME, 0, 100, 500, 600, NOEND_ABSTIME, INVALID_ABSTIME}

StatusWords == {T_INTERVAL_INVAL, T_INTERVAL_VALID, 2}

TimeIntervals ==
    {TimeIntervalData(s, a, b) : s \in StatusWords, a \in Endpoints, b \in Endpoints}

NoCall ==
    /\ op = "none"
    /\ result = NoResult

\* the call has no argument of another type
NoArg == [kind |-> "none"]

InitCmp ==
    /\ NoCall
    /\ arg = NoArg
    /\ buf = <<>>
    /\ str = <<>>
    /\ CTimeZone = 0
    /\ \/ /\ t1 \in Int32Values
          /\ t2 \in Int32Values
          /\ i1 = NoInterval
          /\ i2 = NoInterval
       \/ /\ t1 = 0
          /\ t2 = 0
          /\ i1 \in TimeIntervals
          /\ i2 \in TimeIntervals

NextCmp ==
    \/ Abstimeeq \/ Abstimene \/ Abstimelt \/ Abstimegt \/ Abstimele
    \/ Abstimege \/ Btabstimecmp
    \/ Reltimeeq \/ Reltimene \/ Reltimelt \/ Reltimegt \/ Reltimele
    \/ Reltimege \/ Btreltimecmp
    \/ Tintervaleq \/ Tintervalne \/ Tintervallt \/ Tintervalle
    \/ Tintervalgt \/ Tintervalge \/ Bttintervalcmp

SpecCmp == InitCmp /\ [][NextCmp]_vars

(***************************************************************************)
(* Claims about the comparators (checked under SpecCmp).                   *)
(***************************************************************************)
\* the plain signed comparison of two int32
NumericCmp(a, b) == IF a > b THEN 1 ELSE IF a < b THEN -1 ELSE 0

\* what C1 expects of a scalar comparator whose INVALID is invalid
SentinelCmp(a, b, invalid) ==
    CASE a = invalid /\ b = invalid -> 0
      [] a = invalid /\ b # invalid -> 1
      [] a # invalid /\ b = invalid -> -1
      [] OTHER -> NumericCmp(a, b)

\* C1: btabstimecmp and btreltimecmp return 0 for two INVALIDs, +1 when only
\* the first operand is INVALID, -1 when only the second is, and otherwise
\* the sign of the plain int32 comparison (NOSTART and NOEND as integers).
C1_ScalarCmp ==
    /\ op = "btabstimecmp" =>
           result = IntResult(SentinelCmp(t1, t2, INVALID_ABSTIME))
    /\ op = "btreltimecmp" =>
           result = IntResult(SentinelCmp(t1, t2, INVALID_RELTIME))

\* INVALID against +infinity, which is numerically smaller, has been compared
C1_Witness ==
    /\ op = "btabstimecmp"
    /\ t1 = INVALID_ABSTIME
    /\ t2 = INT_MAX
    /\ result.val = 1

AbstimeSentinels == {INVALID_ABSTIME, NOSTART_ABSTIME, NOEND_ABSTIME}

\* C2 as stated: a sentinel (INVALID, NOSTART or NOEND) compares greater than
\* every non-sentinel, and two sentinels compare equal.
C2_AsStated ==
    op = "btabstimecmp" =>
        /\ t1 \in AbstimeSentinels /\ t2 \notin AbstimeSentinels =>
               result.val > 0 /\ btabstimecmp(t2, t1) < 0
        /\ t1 \in AbstimeSentinels /\ t2 \in AbstimeSentinels =>
               result.val = 0

\* C2 (amended): INVALID compares greater than every value that is not
\* INVALID (comparator(INVALID, b) > 0 and comparator(b, INVALID) < 0) and
\* equal to INVALID; NOSTART and NOEND are ordered as the integers they are.
C2_InvalidLast ==
    /\ op = "btabstimecmp" =>
           /\ t1 = INVALID_ABSTIME /\ t2 # INVALID_ABSTIME =>
                  result.val > 0 /\ btabstimecmp(t2, t1) < 0
           /\ t1 = INVALID_ABSTIME /\ t2 = INVALID_ABSTIME => result.val = 0
           /\ t1 \in {NOSTART_ABSTIME, NOEND_ABSTIME}
                  /\ t2 \in {NOSTART_ABSTIME, NOEND_ABSTIME} =>
                  result.val = NumericCmp(t1, t2)
    /\ op = "btreltimecmp" =>
           /\ t1 = INVALID_RELTIME /\ t2 # INVALID_RELTIME =>
                  result.val > 0 /\ btreltimecmp(t2, t1) < 0
           /\ t1 = INVALID_RELTIME /\ t2 = INVALID_RELTIME => result.val = 0

\* INVALID has been compared with +infinity and came out greater
C2_Witness ==
    /\ op = "btabstimecmp"
    /\ t1 = INVALID_ABSTIME
    /\ t2 = NOEND_ABSTIME
    /\ result.val > 0

\* the relation a predicate of the given suffix stands for
Relation(suffix, c) ==
    CASE suffix = "eq" -> c = 0
      [] suffix = "ne" -> c # 0
      [] suffix = "lt" -> c < 0
      [] suffix = "le" -> c <= 0
      [] suffix = "gt" -> c > 0
      [] suffix = "ge" -> c >= 0

Suffixes == {"eq", "ne", "lt", "le", "gt", "ge"}

\* C3: each comparator is a consistent total ordering (cmp(a,a) = 0,
\* cmp(a,b) = -cmp(b,a), transitive) and each of the six predicates of a
\* type returns the relation of its name applied to that comparator.
C3_TotalOrder ==
    /\ op = "btabstimecmp" =>
           /\ btabstimecmp(t1, t1) = 0
           /\ result.val = -btabstimecmp(t2, t1)
           /\ \A c \in Int32Values :
                  result.val <= 0 /\ btabstimecmp(t2, c) <= 0 =>
                      btabstimecmp(t1, c) <= 0
    /\ op = "btreltimecmp" =>
           /\ btreltimecmp(t1, t1) = 0
           /\ result.val = -btreltimecmp(t2, t1)
           /\ \A c \in Int32Values :
                  result.val <= 0 /\ btreltimecmp(t2, c) <= 0 =>
                      btreltimecmp(t1, c) <= 0
    /\ op = "bttintervalcmp" =>
           /\ bttintervalcmp(i1, i1) = 0
           /\ result.val = -bttintervalcmp(i2, i1)
           /\ \A c \in TimeIntervals :
                  result.val <= 0 /\ bttintervalcmp(i2, c) <= 0 =>
                      bttintervalcmp(i1, c) <= 0
    /\ \A x \in Suffixes :
           /\ op = "abstime" \o x =>
                  result = BoolResult(Relation(x, btabstimecmp(t1, t2)))
           /\ op = "reltime" \o x =>
                  result = BoolResult(Relation(x, btreltimecmp(t1, t2)))
           /\ op = "tinterval" \o x =>
                  result = BoolResult(Relation(x, bttintervalcmp(i1, i2)))

\* an interval whose length wraps around (-infinity to +infinity) has been
\* compared with a short one and came out shorter
C3_Witness ==
    /\ op = "bttintervalcmp"
    /\ i1 = TimeIntervalData(T_INTERVAL_VALID, NOSTART_ABSTIME, NOEND_ABSTIME)
    /\ i2 = TimeIntervalData(T_INTERVAL_VALID, 0, 100)
    /\ result.val = -1

\* an interval counts as invalid for the comparison
IntervalIsInvalid(i) ==
    \/ i.status = T_INTERVAL_INVAL
    \/ i.data[1] = INVALID_ABSTIME
    \/ i.data[2] = INVALID_ABSTIME

\* C4: two invalid intervals compare equal, an invalid one compares greater
\* than a non-invalid one, and two non-invalid ones are compared by the
\* int32 value end - start alone, so equal lengths compare equal.
C4_LengthOnly ==
    op = "bttintervalcmp" =>
        /\ IntervalIsInvalid(i1) /\ IntervalIsInvalid(i2) => result.val = 0
        /\ IntervalIsInvalid(i1) /\ ~IntervalIsInvalid(i2) => result.val = 1
        /\ ~IntervalIsInvalid(i1) /\ IntervalIsInvalid(i2) => result.val = -1
        /\ ~IntervalIsInvalid(i1) /\ ~IntervalIsInvalid(i2) =>
               result.val = NumericCmp(sub32(i1.data[2], i1.data[1]),
                                       sub32(i2.data[2], i2.data[1]))

\* [0,100] and [500,600] have been compared and are equal
C4_Witness ==
    /\ op = "bttintervalcmp"
    /\ i1 = TimeIntervalData(T_INTERVAL_VALID, 0, 100)
    /\ i2 = TimeIntervalData(T_INTERVAL_VALID, 500, 600)
    /\ result.val = 0

(***************************************************************************)
(* timepl, timemi: abstime + reltime = abstime, abstime - reltime = abstime *)
(***************************************************************************)
\* mutant: the upper limit itself passes the guard
timepl_off_by_one(a, b) ==
    IF /\ AbsoluteTimeIsReal(a)
       /\ RelativeTimeIsValid(b)
       /\ \/ b > 0 /\ a <= sub32(NOEND_ABSTIME, b)
          \/ b <= 0 /\ a > sub32(NOSTART_ABSTIME, b)
    THEN add32(a, b)
    ELSE INVALID_ABSTIME

\* mutant: the first argument is not required to be a real time
timepl_any_abstime(a, b) ==
    IF /\ RelativeTimeIsValid(b)
       /\ \/ b > 0 /\ a < sub32(NOEND_ABSTIME, b)
          \/ b <= 0 /\ a > sub32(NOSTART_ABSTIME, b)
    THEN add32(a, b)
    ELSE INVALID_ABSTIME

timepl(a, b) ==
    IF /\ AbsoluteTimeIsReal(a)
       /\ RelativeTimeIsValid(b)
       /\ \/ b > 0 /\ a < sub32(NOEND_ABSTIME, b)
          \/ b <= 0 /\ a > sub32(NOSTART_ABSTIME, b)
    THEN add32(a, b)
    ELSE INVALID_ABSTIME

\* an int32 operation that timepl evaluates, in C's order of evaluation,
\* leaves the int32 range
timepl_overflows(a, b) ==
    /\ AbsoluteTimeIsReal(a)
    /\ RelativeTimeIsValid(b)
    /\ \/ b > 0 /\ SubOverflows(NOEND_ABSTIME, b)
       \/ b <= 0 /\ SubOverflows(NOSTART_ABSTIME, b)
       \/ timepl(a, b) # INVALID_ABSTIME /\ AddOverflows(a, b)

\* mutant: the lower limit itself passes the guard
timemi_off_by_one(a, b) ==
    IF /\ AbsoluteTimeIsReal(a)
       /\ RelativeTimeIsValid(b)
       /\ \/ b > 0 /\ a >= add32(NOSTART_ABSTIME, b)
          \/ b <= 0 /\ a < add32(NOEND_ABSTIME, b)
    THEN sub32(a, b)
    ELSE INVALID_ABSTIME

timemi(a, b) ==
    IF /\ AbsoluteTimeIsReal(a)
       /\ RelativeTimeIsValid(b)
       /\ \/ b > 0 /\ a > add32(NOSTART_ABSTIME, b)
          \/ b <= 0 /\ a < add32(NOEND_ABSTIME, b)
    THEN sub32(a, b)
    ELSE INVALID_ABSTIME

timemi_overflows(a, b) ==
    /\ AbsoluteTimeIsReal(a)
    /\ RelativeTimeIsValid(b)
    /\ \/ b > 0 /\ AddOverflows(NOSTART_ABSTIME, b)
       \/ b <= 0 /\ AddOverflows(NOEND_ABSTIME, b)
       \/ timemi(a, b) # INVALID_ABSTIME /\ SubOverflows(a, b)

\* the value returned, and in flag whether an int32 operation overflowed
Int32Result(n, overflowed) == [IntResult(n) EXCEPT !.flag = overflowed]

Timepl ==
    /\ op = "none"
    /\ Return("timepl", Int32Result(timepl(t1, t2), timepl_overflows(t1, t2)))

Timemi ==
    /\ op = "none"
    /\ Return("timemi", Int32Result(timemi(t1, t2), timemi_overflows(t1, t2)))

InitArith ==
    /\ NoCall
    /\ arg = NoArg
    /\ t1 \in Int32Values
    /\ t2 \in Int32Values
    /\ i1 = NoInterval
    /\ i2 = NoInterval
    /\ buf = <<>>
    /\ str = <<>>
    /\ CTimeZone = 0

NextArith == Timepl \/ Timemi

SpecArith == InitArith /\ [][NextArith]_vars

(***************************************************************************)
(* Claims about the arithmetic (checked under SpecArith).                  *)
(***************************************************************************)
\* the mathematical sum a + b lies strictly between NOSTART and NOEND
SumIsReal(a, b) ==
    /\ ~AddOverflows(a, b)
    /\ NOSTART_ABSTIME < a + b
    /\ a + b < NOEND_ABSTIME

\* the mathematical difference a - b lies strictly between NOSTART and NOEND
DifferenceIsReal(a, b) ==
    /\ ~SubOverflows(a, b)
    /\ NOSTART_ABSTIME < a - b
    /\ a - b < NOEND_ABSTIME

\* C7: timepl(t1, t2) is the exact sum iff t1 is real, t2 is not INVALID and
\* the sum lies strictly between NOSTART and NOEND; otherwise it is INVALID.
\* It is never a wrapped value, NOSTART or NOEND, and no int32 operation of
\* the guard or of the sum overflows.
C7_TimeplExact ==
    op = "timepl" =>
        LET exact == /\ AbsoluteTimeIsReal(t1)
                     /\ t2 # INVALID_RELTIME
                     /\ SumIsReal(t1, t2)
        IN  /\ exact => result.val = t1 + t2
            /\ ~exact => result.val = INVALID_ABSTIME
            /\ result.val \notin {NOSTART_ABSTIME, NOEND_ABSTIME}
            /\ ~result.flag

\* timepl(NOEND - 1, 2) has been called and returned INVALID
C7_Witness ==
    /\ op = "timepl"
    /\ t1 = NOEND_ABSTIME - 1
    /\ t2 = 2
    /\ result.val = INVALID_ABSTIME

\* C8: timemi(t1, t2) = timepl(t1, -t2) whenever neither t2 nor -t2 is
\* INVALID and -t2 is an int32; and timemi returns INVALID whenever t1 is
\* not real, t2 is INVALID or t1 - t2 is not strictly between NOSTART and
\* NOEND (otherwise the exact difference).
C8_TimemiMirror ==
    op = "timemi" =>
        /\ t2 # INVALID_RELTIME /\ t2 # INT_MIN /\ -t2 # INVALID_RELTIME =>
               result.val = timepl(t1, -t2)
        /\ \/ ~AbsoluteTimeIsReal(t1)
           \/ t2 = INVALID_RELTIME
           \/ ~DifferenceIsReal(t1, t2) => result.val = INVALID_ABSTIME
        /\ result.val # INVALID_ABSTIME => result.val = t1 - t2
        /\ result.val \notin {NOSTART_ABSTIME, NOEND_ABSTIME}

\* timemi has been called where t1 - t2 is exactly NOSTART, and returned
\* INVALID as timepl(t1, -t2) does
C8_Witness ==
    /\ op = "timemi"
    /\ t1 = NOSTART_ABSTIME + 2
    /\ t2 = 2
    /\ result.val = INVALID_ABSTIME
    /\ timepl(t1, -t2) = INVALID_ABSTIME

(***************************************************************************)
(* The abstime codecs as entry points: the text or the message that an     *)
(* output function returned is what the input function is then given.      *)
(***************************************************************************)
Abstimeout ==
    /\ op = "none"
    /\ op' = "abstimeout"
    /\ str' = abstimeout(t1, CTimeZone)
    /\ UNCHANGED <<t1, t2, i1, i2, buf, CTimeZone, arg, result>>

Abstimein ==
    /\ op = "abstimeout"
    /\ Return("abstimein", abstimein(str))

Abstimesend ==
    /\ op = "none"
    /\ op' = "abstimesend"
    /\ buf' = abstimesend(t1)
    /\ UNCHANGED <<t1, t2, i1, i2, str, CTimeZone, arg, result>>

Abstimerecv ==
    /\ op = "abstimesend"
    /\ Return("abstimerecv", abstimerecv(buf))

\* zones from UTC+14 to UTC-12
Zones == {-14 * SECS_PER_HOUR, 0, 12 * SECS_PER_HOUR}

\* the first second of the local 19 January 2038
LastDayStart(zone) == (MAX_DAYNUM + 1) * SECS_PER_DAY + zone

CodecValues ==
    Int32Values
        \cup {LastDayStart(z) + k : z \in {-14 * SECS_PER_HOUR, 0}, k \in -Near .. Near}
        \cup {k * SECS_PER_DAY : k \in -Near .. Near}

InitCodec ==
    /\ NoCall
    /\ arg = NoArg
    /\ t1 \in CodecValues
    /\ t2 = 0
    /\ i1 = NoInterval
    /\ i2 = NoInterval
    /\ buf = <<>>
    /\ str = <<>>
    /\ CTimeZone \in Zones

NextCodec == Abstimeout \/ Abstimein \/ Abstimesend \/ Abstimerecv

SpecCodec == InitCodec /\ [][NextCodec]_vars

(***************************************************************************)
(* Claims about the abstime codecs (checked under SpecCodec).              *)
(***************************************************************************)
\* C10 as stated: every real abstime x comes back from abstimerecv of
\* abstimesend(x) and from abstimein of abstimeout(x), the values on
\* 19 January 2038 included.
C10_AsStated ==
    AbsoluteTimeIsReal(t1) =>
        /\ op = "abstimerecv" => result = IntResult(t1)
        /\ op = "abstimein" => result = IntResult(t1)

\* C10 (amended): every real abstime x comes back from abstimerecv of
\* abstimesend(x); it comes back from abstimein of abstimeout(x) when its
\* local calendar day is one of 13 December 1901 .. 18 January 2038
\* (MIN_DAYNUM .. MAX_DAYNUM), and otherwise, so on 19 January 2038,
\* abstimein returns INVALID.
C10_RoundTrip ==
    AbsoluteTimeIsReal(t1) =>
        /\ op = "abstimerecv" => result = IntResult(t1)
        /\ op = "abstimein" =>
               IF local_day(t1, CTimeZone) \in MIN_DAYNUM .. MAX_DAYNUM
               THEN result = IntResult(t1)
               ELSE result = IntResult(INVALID_ABSTIME)

\* the last second of the local 18 January 2038 went through the text form
\* and came back
C10_Witness ==
    /\ op = "abstimein"
    /\ CTimeZone = 0
    /\ t1 = LastDayStart(0) - 1
    /\ result = IntResult(t1)

(***************************************************************************)
(* The TimeInterval constructors as entry points.                          *)
(***************************************************************************)
\* what a freshly allocated TimeIntervalData may hold
Uninitialized ==
    {TimeIntervalData(T_INTERVAL_VALID, a, b) :
         a \in {0, 1, INVALID_ABSTIME}, b \in {0, 1, INVALID_ABSTIME}}

Mktinterval ==
    /\ op = "none"
    /\ \E palloc \in Uninitialized :
           Return("mktinterval", IntervalResult(mktinterval(t1, t2, palloc)))

Tintervalin ==
    /\ op = "none"
    /\ Return("tintervalin", tintervalin(str))

Tintervalrecv ==
    /\ op = "none"
    /\ Return("tintervalrecv", tintervalrecv(buf))

\* the literal ["a" "b"], with pad blanks wherever blanks may stand
TintervalLiteral(a, b, pad) ==
    LET blanks == [k \in 1 .. pad |-> Chr(" ")]
    IN  blanks \o <<Chr("[")>> \o blanks \o <<Chr("\"")>> \o a \o <<Chr("\"")>>
            \o blanks \o <<Chr("\"")>> \o b \o <<Chr("\"")>> \o blanks
            \o <<Chr("]")>>

\* the words of the messages tintervalrecv is given: i1 is the interval
\* that was sent, buf the message, whole or cut short
StatusesSent == {T_INTERVAL_INVAL, T_INTERVAL_VALID, 2, -1}
EndpointsSent == {NOSTART_ABSTIME, -1, 0, 100, NOEND_ABSTIME, INVALID_ABSTIME}

InitTI ==
    /\ NoCall
    /\ arg = NoArg
    /\ i2 = NoInterval
    /\ \/ /\ t1 \in Int32Values
          /\ t2 \in Int32Values
          /\ CTimeZone \in Zones
          /\ \E pad \in 0 .. 1 :
                 str = TintervalLiteral(abstimeout(t1, CTimeZone),
                                        abstimeout(t2, CTimeZone), pad)
          /\ i1 = NoInterval
          /\ buf = <<>>
       \/ /\ t1 = 0
          /\ t2 = 0
          /\ CTimeZone = 0
          /\ str = <<>>
          /\ \E s \in StatusesSent, a \in EndpointsSent, b \in EndpointsSent :
                 i1 = TimeIntervalData(s, a, b)
          /\ \E cut \in {0, 4} : buf = SubSeq(tintervalsend(i1), 1, 12 - cut)

NextTI == Mktinterval \/ Tintervalin \/ Tintervalrecv

SpecTI == InitTI /\ [][NextTI]_vars

(***************************************************************************)
(* Claims about the TimeInterval constructors (checked under SpecTI).      *)
(***************************************************************************)
\* the smaller and the greater of two abstimes in the abstime ordering
AbstimeLeast(a, b) ==
    CHOOSE x \in {a, b} : btabstimecmp(x, a) <= 0 /\ btabstimecmp(x, b) <= 0

AbstimeGreatest(a, b) ==
    CHOOSE x \in {a, b} : btabstimecmp(x, a) >= 0 /\ btabstimecmp(x, b) >= 0

\* interval i is the canonical interval of the endpoints a and b
Canonical(i, a, b) ==
    /\ i.data[1] = AbstimeLeast(a, b)
    /\ i.data[2] = AbstimeGreatest(a, b)
    /\ i.status = IF a = INVALID_ABSTIME \/ b = INVALID_ABSTIME
                  THEN T_INTERVAL_INVAL ELSE T_INTERVAL_VALID

\* C5 as stated: mktinterval(t1, t2), and tintervalin on a literal whose
\* segments decode to t1 and t2, return start = min(t1, t2), end = max(t1, t2)
\* in the abstime ordering and status INVAL iff t1 or t2 is INVALID.
C5_AsStated ==
    /\ op = "mktinterval" => Canonical(result.iv, t1, t2)
    /\ op = "tintervalin" /\ result.kind = "tinterval" =>
           Canonical(result.iv, parsetinterval(str).iv.data[1],
                     parsetinterval(str).iv.data[2])

\* the part of C5 that the code keeps: tintervalin always, mktinterval when
\* neither endpoint is INVALID (and the status in every case)
C5_WhereAssigned ==
    /\ op = "mktinterval" =>
           IF t1 = INVALID_ABSTIME \/ t2 = INVALID_ABSTIME
           THEN result.iv.status = T_INTERVAL_INVAL
           ELSE Canonical(result.iv, t1, t2)
    /\ op = "tintervalin" /\ result.kind = "tinterval" =>
           Canonical(result.iv, parsetinterval(str).iv.data[1],
                     parsetinterval(str).iv.data[2])

\* C6 as stated: an interval returned by tintervalin, mktinterval or
\* tintervalrecv with status VALID has start <= end in the abstime ordering.
C6_AsStated ==
    /\ op \in {"tintervalin", "mktinterval", "tintervalrecv"}
    /\ result.kind = "tinterval"
    /\ result.iv.status = T_INTERVAL_VALID
    => abstimele(result.iv.data[1], result.iv.data[2])

\* the part of C6 that the code keeps: tintervalin and mktinterval
C6_WhereSorted ==
    /\ op \in {"tintervalin", "mktinterval"}
    /\ result.kind = "tinterval"
    /\ result.iv.status = T_INTERVAL_VALID
    => abstimele(result.iv.data[1], result.iv.data[2])

\* C9: tintervalrecv reads status, start and end in that order; it fails
\* with the status error whenever the status sent is not the one the two
\* endpoints give (INVAL iff one of them is INVALID), a status other than
\* 0 and 1 included, and otherwise returns the three fields as sent.
C9_RecvChecksStatus ==
    op = "tintervalrecv" /\ Len(buf) = 12 =>
        LET expected == IF \/ i1.data[1] = INVALID_ABSTIME
                           \/ i1.data[2] = INVALID_ABSTIME
                        THEN T_INTERVAL_INVAL ELSE T_INTERVAL_VALID
        IN  IF i1.status # expected
            THEN result = ErrorResult("invalid status in external tinterval value")
            ELSE result = IntervalResult(i1)

\* a message with status VALID and end INVALID has been refused
C9_Witness ==
    /\ op = "tintervalrecv"
    /\ Len(buf) = 12
    /\ i1 = TimeIntervalData(T_INTERVAL_VALID, 0, INVALID_ABSTIME)
    /\ result.kind = "invalid status in external tinterval value"

(***************************************************************************)
(* tintervalin on literals: those tintervalout writes, those written by    *)
(* hand with blanks, and each of them with one element left out or one     *)
(* element put in.                                                         *)
(***************************************************************************)
\* the most blanks in a row
MaxPad == 1

\* texts between quotes: two that abstimein accepts, one it rejects, and
\* the undefined range
Segments ==
    {<<DateTimeText("DTK_EPOCH", NoTm, 0)>>, <<DateTimeText("DTK_INVALID", NoTm, 0)>>,
     <<Chr("bad")>>, <<Chr(INVALID_INTERVAL_STR)>>}

ScanAlphabet ==
    {Chr(" "), Chr("["), Chr("\""), Chr("]")} \cup {seg[1] : seg \in Segments}

\* the intervals tintervalout is given
IntervalsWritten ==
    {TimeIntervalData(T_INTERVAL_VALID, 0, 100),
     TimeIntervalData(T_INTERVAL_VALID, NOSTART_ABSTIME, NOEND_ABSTIME),
     TimeIntervalData(T_INTERVAL_INVAL, 0, INVALID_ABSTIME)}

ScanLiterals ==
    {tintervalout(i, 0) : i \in IntervalsWritten}
        \cup {TintervalLiteral(a, b, pad) :
                  a \in Segments, b \in Segments, pad \in 0 .. MaxPad}

Delete(s, k) == SubSeq(s, 1, k - 1) \o SubSeq(s, k + 1, Len(s))

Insert(s, k, e) == SubSeq(s, 1, k - 1) \o <<e>> \o SubSeq(s, k, Len(s))

Edits(s) ==
    {s} \cup {Delete(s, k) : k \in 1 .. Len(s)}
        \cup {Insert(s, k, e) : k \in 1 .. Len(s) + 1, e \in ScanAlphabet}

InitScan ==
    /\ NoCall
    /\ arg = NoArg
    /\ t1 = 0
    /\ t2 = 0
    /\ i1 = NoInterval
    /\ i2 = NoInterval
    /\ buf = <<>>
    /\ CTimeZone = 0
    /\ \E literal \in ScanLiterals : str \in Edits(literal)

NextScan == Tintervalin

SpecScan == InitScan /\ [][NextScan]_vars

(***************************************************************************)
(* Claims about the tinterval literal (checked under SpecScan).            *)
(***************************************************************************)
TintervalSyntaxError == "invalid input syntax for type tinterval"

AbstimeSyntaxError == "invalid input syntax for type abstime"

AllBlank(s, from, to) == \A k \in from .. to : s[k].c = " "

NoQuote(s, from, to) == \A k \in from .. to : s[k].c # "\""

\* s is blanks, '[', blanks, and a double quote followed by the undefined
\* range: the undefined range stands where the first segment is expected
UndefinedRangeFirst(s) ==
    \E b \in 1 .. Len(s) :
        /\ s[b].c = "[" /\ AllBlank(s, 1, b - 1)
        /\ \E q \in b + 1 .. Len(s) - 1 :
               /\ s[q].c = "\"" /\ AllBlank(s, b + 1, q - 1)
               /\ s[q + 1].c = INVALID_INTERVAL_STR

\* C11 as stated: when the undefined range stands where the first quoted
\* segment is expected, tintervalin returns the invalid interval (status
\* INVAL) and raises no error.
C11_AsStated ==
    op = "tintervalin" /\ UndefinedRangeFirst(str) =>
        /\ result.kind = "tinterval"
        /\ result.iv.status = T_INTERVAL_INVAL

\* what the code does: the undefined range in the place of the first
\* segment is the tinterval syntax error, whatever follows
C11_HandledLikeSyntaxError ==
    op = "tintervalin" /\ UndefinedRangeFirst(str) =>
        result = ErrorAbout(TintervalSyntaxError, str)

\* s is blanks, '[', blanks, a quoted segment from q1 to e1, blanks, a
\* quoted segment from q2 to e2, blanks, ']' and the end of the input
Literal(s, q1, e1, q2, e2) ==
    /\ s[q1].c = "\"" /\ s[e1].c = "\"" /\ NoQuote(s, q1 + 1, e1 - 1)
    /\ s[q2].c = "\"" /\ s[e2].c = "\"" /\ NoQuote(s, q2 + 1, e2 - 1)
    /\ AllBlank(s, e1 + 1, q2 - 1)
    /\ s[Len(s)].c = "]" /\ AllBlank(s, e2 + 1, Len(s) - 1)
    /\ \E b \in 1 .. q1 - 1 :
           s[b].c = "[" /\ AllBlank(s, 1, b - 1) /\ AllBlank(s, b + 1, q1 - 1)

Accepted(seg) == abstimein(seg).kind = "int"

\* s is a literal whose two segments the abstime decoder accepts
WellFormed(s) ==
    \E q1 \in 1 .. Len(s) : \E e1 \in q1 + 1 .. Len(s) :
    \E q2 \in e1 + 1 .. Len(s) : \E e2 \in q2 + 1 .. Len(s) - 1 :
        /\ Literal(s, q1, e1, q2, e2)
        /\ Accepted(SubSeq(s, q1 + 1, e1 - 1))
        /\ Accepted(SubSeq(s, q2 + 1, e2 - 1))

\* s holds a quoted text, seg, that the abstime decoder rejects
RejectedSegment(s, seg) ==
    \E q \in 1 .. Len(s) : \E e \in q + 1 .. Len(s) :
        /\ s[q].c = "\"" /\ s[e].c = "\""
        /\ seg = SubSeq(s, q + 1, e - 1)
        /\ NoQuote(s, q + 1, e - 1)
        /\ ~Accepted(seg)

C13_AsStated ==
    op = "tintervalin" /\ result.kind # "tinterval" =>
        result = ErrorAbout(TintervalSyntaxError, str)

\* what the code does: a failure the scanner itself detects carries the
\* whole input; a rejected segment is reported by abstimein, as an abstime
\* syntax error that carries the segment alone
C13_SegmentAlone ==
    op = "tintervalin" /\ result.kind # "tinterval" =>
        \/ result = ErrorAbout(TintervalSyntaxError, str)
        \/ /\ result.kind = AbstimeSyntaxError
           /\ result.msg # str
           /\ RejectedSegment(str, result.msg)

(***************************************************************************)
(* Wide integers.  TimeOffset and Timestamp are int64 (integer datetimes); *)
(* a wide integer is the two's complement of a number in Limbs digits of   *)
(* base LimbBase, least significant first: wide enough for every exact     *)
(* intermediate value of the conversions, so that the 64-bit result of a   *)
(* C operator and the exact result can be told apart.                      *)
(***************************************************************************)
LimbBase == 2 ^ 15

Limbs == 7

\* the digits f[1] .. f[Limbs], from digit k on, as a sequence
RECURSIVE Digits(_, _)
Digits(f, k) == IF k > Limbs THEN <<>> ELSE <<f[k]>> \o Digits(f, k + 1)

WideZero == Digits([k \in 1 .. Limbs |-> 0], 1)

\* carry the digits of x, from digit k on, back into 0 .. LimbBase - 1
RECURSIVE Normalize(_, _, _)
Normalize(x, k, carry) ==
    IF k > Limbs THEN <<>>
    ELSE <<(x[k] + carry) % LimbBase>>
             \o Normalize(x, k + 1, (x[k] + carry) \div LimbBase)

WideAdd(a, b) == Normalize([k \in 1 .. Limbs |-> a[k] + b[k]], 1, 0)

WideNot(a) == Digits([k \in 1 .. Limbs |-> LimbBase - 1 - a[k]], 1)

WideNeg(a) == Normalize([k \in 1 .. Limbs |-> LimbBase - 1 - a[k]], 1, 1)

WideIsNeg(a) == a[Limbs] >= LimbBase \div 2

\* the wide integer of an int32
Wide(n) ==
    LET digits(m) == Digits([k \in 1 .. Limbs |->
                                CASE k = 1 -> m % LimbBase
                                  [] k = 2 -> (m \div LimbBase) % LimbBase
                                  [] k = 3 -> m \div (LimbBase * LimbBase)
                                  [] OTHER -> 0], 1)
    IN  IF n >= 0 THEN digits(n) ELSE WideNot(digits(-(n + 1)))

\* a times the digit d
MulDigit(a, d) == Normalize([k \in 1 .. Limbs |-> a[k] * d], 1, 0)

ShiftLimbs(a, n) ==
    Digits([k \in 1 .. Limbs |-> IF k > n THEN a[k - n] ELSE 0], 1)

RECURSIVE MulFrom(_, _, _)
MulFrom(a, b, k) ==
    IF k > Limbs THEN WideZero
    ELSE WideAdd(ShiftLimbs(MulDigit(a, b[k]), k - 1), MulFrom(a, b, k + 1))

WideMul(a, b) == MulFrom(a, b, 1)

\* the digits 1 .. k of a non-negative wide integer divided by d < LimbBase,
\* rem being what the digits above k left
RECURSIVE DivFrom(_, _, _, _)
DivFrom(a, d, k, rem) ==
    IF k = 0 THEN <<>>
    ELSE DivFrom(a, d, k - 1, ((rem * LimbBase) + a[k]) % d)
             \o <<((rem * LimbBase) + a[k]) \div d>>

\* the C operator / by d < LimbBase: the quotient is truncated toward zero
WideDiv(a, d) ==
    IF WideIsNeg(a) THEN WideNeg(DivFrom(WideNeg(a), d, Limbs, 0))
    ELSE DivFrom(a, d, Limbs, 0)

\* the wide integer is an int32
FitsInt32(a) ==
    LET small(x) == x[3] < 2 /\ \A k \in 4 .. Limbs : x[k] = 0
    IN  IF WideIsNeg(a) THEN small(WideNot(a)) ELSE small(a)

\* the int32 that a wide integer is
ToInt32(a) ==
    LET value(x) == x[1] + (x[2] * LimbBase) + (x[3] * LimbBase * LimbBase)
    IN  IF WideIsNeg(a) THEN -value(WideNot(a)) - 1 ELSE value(a)

\* the int64 that holds the low 64 bits of a: bit 63 is bit 3 of digit 5
Wrap64(a) ==
    LET low == a[5] % 16
        neg == low >= 8
    IN  Digits([k \in 1 .. Limbs |->
                   CASE k < 5 -> a[k]
                     [] k = 5 -> IF neg THEN low + (LimbBase - 16) ELSE low
                     [] OTHER -> IF neg THEN LimbBase - 1 ELSE 0], 1)

\* a is no int64
Overflows64(a) == Wrap64(a) # a

Int64Min == Wrap64([WideZero EXCEPT ![5] = 8])

Int64Max == WideNot(Int64Min)

\* a signed 64-bit operation whose exact result is x: when x is no int64
\* the behaviour is undefined; the value is then the low 64 bits (what the
\* multiply and add instructions leave) or, for what else a build may do
\* with it, one of some other int64
Signed64(x) ==
    IF Overflows64(x) THEN {Wrap64(x), WideZero, Int64Min, Int64Max} ELSE {x}

\* the C operators / and % of an int by a positive int
cdiv(a, b) == IF a >= 0 THEN a \div b ELSE (a + b - 1) \div b

cmod(a, b) == a - (b * cdiv(a, b))

USECS_PER_SEC == 1000000

(***************************************************************************)
(* interval_reltime: Interval {time, day, month} to reltime                *)
(***************************************************************************)
Interval(time, day, month) ==
    [kind |-> "interval", time |-> time, day |-> day, month |-> month]

\* the exact number of microseconds of year years, month months, day days
\* and time microseconds
FlattenedUsecs(year, month, day, time) ==
    WideAdd(WideMul(WideAdd(WideAdd(WideMul(Wide(365250000), Wide(year)),
                                    WideMul(Wide(30000000), Wide(month))),
                            WideMul(Wide(1000000), Wide(day))),
                    Wide(SECS_PER_DAY)),
            time)

\* span /= USECS_PER_SEC
SpanSeconds(span) == WideDiv(WideDiv(span, 1000), 1000)

\* the values the int64 span may have after the assignment of lines 769-771
interval_span(interval) ==
    LET year == cdiv(interval.month, MONTHS_PER_YEAR)
        month == cmod(interval.month, MONTHS_PER_YEAR)
        days == WideAdd(WideAdd(WideMul(Wide(365250000), Wide(year)),
                                WideMul(Wide(30000000), Wide(month))),
                        WideMul(Wide(1000000), Wide(interval.day)))
    IN  UNION {Signed64(WideAdd(product, interval.time)) :
                   product \in Signed64(WideMul(days, Wide(SECS_PER_DAY)))}

\* interval_reltime, span being the value the int64 arithmetic left
interval_reltime(interval, span) ==
    IF ~FitsInt32(SpanSeconds(span)) THEN INVALID_RELTIME
    ELSE ToInt32(SpanSeconds(span))

Interval_reltime ==
    /\ op = "none"
    /\ \E span \in interval_span(arg) :
           Return("interval_reltime", IntResult(interval_reltime(arg, span)))

\* Interval.time: whole and half seconds, and the greatest int64
TimesGiven ==
    {WideMul(Wide(k), Wide(USECS_PER_SEC)) : k \in -Near .. Near}
        \cup {Wide(USECS_PER_SEC \div 2), Int64Max}

\* Interval.day: about zero, about the days that make INT_MAX seconds,
\* about the days that make the greatest int64 of microseconds and twice
\* that, and the ends of int32
DaysGiven ==
    {d + k : d \in {0, 24855, -24855, 106751991, 213503982}, k \in 0 .. 1}
        \cup {INT_MAX, INT_MIN}

\* Interval.month: about zero, a year and a month either way, 68 and 69
\* years, and the ends of int32
MonthsGiven == {0, 1, -1, 13, -13, 816, 828, 7014516, INT_MAX, INT_MIN}

InitInterval ==
    /\ NoCall
    /\ t1 = 0
    /\ t2 = 0
    /\ i1 = NoInterval
    /\ i2 = NoInterval
    /\ buf = <<>>
    /\ str = <<>>
    /\ CTimeZone = 0
    /\ \E time \in TimesGiven, day \in DaysGiven, month \in MonthsGiven :
           arg = Interval(time, day, month)

NextInterval == Interval_reltime

SpecInterval == InitInterval /\ [][NextInterval]_vars

(***************************************************************************)
(* Claims about interval_reltime (checked under SpecInterval).             *)
(***************************************************************************)
\* the exact flattened value of the argument, in whole seconds
FlattenedSeconds ==
    SpanSeconds(FlattenedUsecs(cdiv(arg.month, MONTHS_PER_YEAR),
                               cmod(arg.month, MONTHS_PER_YEAR),
                               arg.day, arg.time))

\* the result C14 states for the argument
FlattenedOrInvalid ==
    IntResult(IF FitsInt32(FlattenedSeconds) THEN ToInt32(FlattenedSeconds)
              ELSE INVALID_RELTIME)

\* C14 as stated: interval_reltime returns the flattened value
\* (365.25 days * years + 30 days * months + days) * 86400 + seconds when
\* it is an int32, and INVALID_RELTIME for every Interval whose flattened
\* value is not, also when the 64-bit intermediate product overflows.
C14_AsStated ==
    op = "interval_reltime" => result = FlattenedOrInvalid

\* no 64-bit operation of the flattening overflows
NoOverflow64 ==
    LET year == cdiv(arg.month, MONTHS_PER_YEAR)
        month == cmod(arg.month, MONTHS_PER_YEAR)
        zero == Wide(0)
    IN  /\ ~Overflows64(FlattenedUsecs(year, month, arg.day, zero))
        /\ ~Overflows64(FlattenedUsecs(year, month, arg.day, arg.time))

\* what the code keeps: the statement of C14 wherever the 64-bit
\* arithmetic does not overflow
C14_WithoutOverflow ==
    op = "interval_reltime" /\ NoOverflow64 => result = FlattenedOrInvalid

(***************************************************************************)
(* Timestamps (utils/timestamp.h, timestamp.cpp): external to              *)
(* nabstime.cpp.  A Timestamp is an int64 of microseconds since            *)
(* 1 January 2000; the least and the greatest int64 are reserved.          *)
(***************************************************************************)
POSTGRES_EPOCH_JDATE == 2451545

DT_NOBEGIN == Int64Min

DT_NOEND == Int64Max

TIMESTAMP_IS_NOBEGIN(j) == j = DT_NOBEGIN

TIMESTAMP_IS_NOEND(j) == j = DT_NOEND

Timestamp(j) == [kind |-> "timestamp", ts |-> j]

TimestampResult(j) == [IntResult(0) EXCEPT !.kind = "timestamp", !.val = j]

\* the quotient rounded down, and the remainder, of a by 0 < d < LimbBase
WideFloorDiv(a, d) ==
    IF WideIsNeg(a) THEN WideNot(DivFrom(WideNot(a), d, Limbs, 0))
    ELSE DivFrom(a, d, Limbs, 0)

WideFloorMod(a, d) == ToInt32(WideAdd(a, WideNeg(MulDigit(WideFloorDiv(a, d), d))))

\* timestamp2tm(dt, NULL, tm, &fsec, NULL, NULL): the calendar fields of a
\* timestamp, or a failure for a date before Julian day 0
timestamp2tm(dt) ==
    LET seconds == WideFloorDiv(WideFloorDiv(dt, 1000), 1000)
        minutes == WideFloorDiv(seconds, SECS_PER_MINUTE)
        hours == WideFloorDiv(minutes, MINS_PER_HOUR)
        date == WideAdd(WideFloorDiv(hours, HOURS_PER_DAY),
                        Wide(POSTGRES_EPOCH_JDATE))
        ymd == j2date(ToInt32(date))
    IN  IF WideIsNeg(date) \/ ~FitsInt32(date) THEN [failed |-> TRUE, tm |-> NoTm]
        ELSE [failed |-> FALSE,
              tm |-> pg_tm(ymd.year, ymd.mon, ymd.mday,
                           WideFloorMod(hours, HOURS_PER_DAY),
                           WideFloorMod(minutes, MINS_PER_HOUR),
                           WideFloorMod(seconds, SECS_PER_MINUTE))]

\* tm2timestamp(tm, 0, tzp, &result) with *tzp = tz, or with tzp = NULL for
\* tz = 0: the timestamp of the calendar fields, or a failure when it is no
\* int64
tm2timestamp(tm, tz) ==
    LET date == date2j(tm.tm_year, tm.tm_mon, tm.tm_mday) - POSTGRES_EPOCH_JDATE
        time == (((tm.tm_hour * MINS_PER_HOUR) + tm.tm_min) * SECS_PER_MINUTE)
                    + tm.tm_sec
        local == WideMul(WideAdd(WideMul(Wide(date), Wide(SECS_PER_DAY)),
                                 Wide(time)),
                         Wide(USECS_PER_SEC))
        dt == WideAdd(local, WideMul(Wide(tz), Wide(USECS_PER_SEC)))
    IN  IF Overflows64(local) \/ Overflows64(dt)
        THEN [failed |-> TRUE, ts |-> WideZero]
        ELSE [failed |-> FALSE, ts |-> dt]

\* DetermineTimeZoneOffset(tm, session_timezone): the session zone is a
\* fixed offset
DetermineTimeZoneOffset(tm, zone) == zone

(***************************************************************************)
(* timestamp_abstime, abstime_timestamp, timestamptz_abstime,              *)
(* abstime_timestamptz                                                     *)
(***************************************************************************)
timestamp_abstime(timestamp, zone) ==
    IF TIMESTAMP_IS_NOBEGIN(timestamp) THEN IntResult(NOSTART_ABSTIME)
    ELSE IF TIMESTAMP_IS_NOEND(timestamp) THEN IntResult(NOEND_ABSTIME)
    ELSE IF ~timestamp2tm(timestamp).failed
    THEN LET tm == timestamp2tm(timestamp).tm
             tz == DetermineTimeZoneOffset(tm, zone)
         IN  IntResult(tm2abstime(tm, tz))
    ELSE ErrorResult("timestamp out of range")

\* mutant: the two infinities change places
abstime_timestamp_swapped(abstime, zone) ==
    CASE abstime = INVALID_ABSTIME ->
             ErrorResult("cannot convert abstime invalid to timestamp")
      [] abstime = NOSTART_ABSTIME -> TimestampResult(DT_NOEND)
      [] abstime = NOEND_ABSTIME -> TimestampResult(DT_NOBEGIN)
      [] OTHER ->
             LET converted == tm2timestamp(abstime2tm(abstime, zone).tm, 0)
             IN  IF converted.failed THEN ErrorResult("timestamp out of range")
                 ELSE TimestampResult(converted.ts)

abstime_timestamp(abstime, zone) ==
    CASE abstime = INVALID_ABSTIME ->
             ErrorResult("cannot convert abstime invalid to timestamp")
      [] abstime = NOSTART_ABSTIME -> TimestampResult(DT_NOBEGIN)
      [] abstime = NOEND_ABSTIME -> TimestampResult(DT_NOEND)
      [] OTHER ->
             LET converted == tm2timestamp(abstime2tm(abstime, zone).tm, 0)
             IN  IF converted.failed THEN ErrorResult("timestamp out of range")
                 ELSE TimestampResult(converted.ts)

timestamptz_abstime(timestamp) ==
    IF TIMESTAMP_IS_NOBEGIN(timestamp) THEN IntResult(NOSTART_ABSTIME)
    ELSE IF TIMESTAMP_IS_NOEND(timestamp) THEN IntResult(NOEND_ABSTIME)
    ELSE IF ~timestamp2tm(timestamp).failed
    THEN IntResult(tm2abstime(timestamp2tm(timestamp).tm, 0))
    ELSE ErrorResult("timestamp out of range")

abstime_timestamptz(abstime, zone) ==
    CASE abstime = INVALID_ABSTIME ->
             ErrorResult("cannot convert abstime invalid to timestamp")
      [] abstime = NOSTART_ABSTIME -> TimestampResult(DT_NOBEGIN)
      [] abstime = NOEND_ABSTIME -> TimestampResult(DT_NOEND)
      [] OTHER ->
             LET broken == abstime2tm(abstime, zone)
                 converted == tm2timestamp(broken.tm, broken.tz)
             IN  IF converted.failed THEN ErrorResult("timestamp out of range")
                 ELSE TimestampResult(converted.ts)

Timestamp_abstime ==
    /\ op = "none"
    /\ Return("timestamp_abstime", timestamp_abstime(arg.ts, CTimeZone))

Abstime_timestamp ==
    /\ op = "none"
    /\ Return("abstime_timestamp", abstime_timestamp(t1, CTimeZone))

Timestamptz_abstime ==
    /\ op = "none"
    /\ Return("timestamptz_abstime", timestamptz_abstime(arg.ts))

Abstime_timestamptz ==
    /\ op = "none"
    /\ Return("abstime_timestamptz", abstime_timestamptz(t1, CTimeZone))

\* the timestamp of second sec of the day that is day days after
\* 1 January 2000
TimestampAt(day, sec) ==
    WideMul(WideAdd(WideMul(Wide(day), Wide(SECS_PER_DAY)), Wide(sec)),
            Wide(USECS_PER_SEC))

\* days counted from 1 January 2000 of: 1 January 1800, 13 December 1901
\* and the day before, 1 January 1970, 1 January 2000, 18, 19 and
\* 20 January 2038, 1 January 2100
DaysConverted ==
    {date2j(1800, 1, 1), date2j(1901, 12, 12), date2j(1901, 12, 13),
     date2j(1970, 1, 1), date2j(2000, 1, 1), date2j(2038, 1, 18),
     date2j(2038, 1, 19), date2j(2038, 1, 20), date2j(2100, 1, 1)}

\* the timestamps given: the two infinities and their neighbours, and the
\* first and last seconds of the days converted
TimestampsGiven ==
    {DT_NOBEGIN, DT_NOEND, WideAdd(DT_NOBEGIN, Wide(1)), WideAdd(DT_NOEND, Wide(-1))}
        \cup {TimestampAt(jd - POSTGRES_EPOCH_JDATE, sec) :
                  jd \in DaysConverted,
                  sec \in (0 .. Near) \cup {SECS_PER_DAY - 1 - k : k \in 0 .. Near}}

InitTimestamp ==
    /\ NoCall
    /\ t1 \in CodecValues
    /\ t2 = 0
    /\ i1 = NoInterval
    /\ i2 = NoInterval
    /\ buf = <<>>
    /\ str = <<>>
    /\ CTimeZone \in Zones
    /\ \E j \in TimestampsGiven : arg = Timestamp(j)

NextTimestamp ==
    Timestamp_abstime \/ Abstime_timestamp \/ Timestamptz_abstime
        \/ Abstime_timestamptz

SpecTimestamp == InitTimestamp /\ [][NextTimestamp]_vars

(***************************************************************************)
(* Claims about the timestamp conversions (checked under SpecTimestamp).   *)
(***************************************************************************)
\* C15: abstime_timestamp and abstime_timestamptz take NOSTART to the
\* no-begin timestamp and NOEND to the no-end timestamp, raise an error for
\* INVALID, and give a real abstime a timestamp that is neither; and
\* timestamp_abstime and timestamptz_abstime take no-begin to NOSTART and
\* no-end to NOEND.
C15_SentinelMapping ==
    /\ op \in {"abstime_timestamp", "abstime_timestamptz"} =>
           CASE t1 = NOSTART_ABSTIME -> result = TimestampResult(DT_NOBEGIN)
             [] t1 = NOEND_ABSTIME -> result = TimestampResult(DT_NOEND)
             [] t1 = INVALID_ABSTIME ->
                    result = ErrorResult("cannot convert abstime invalid to timestamp")
             [] OTHER ->
                    /\ result.kind = "timestamp"
                    /\ result.val \notin {DT_NOBEGIN, DT_NOEND}
    /\ op \in {"timestamp_abstime", "timestamptz_abstime"} =>
           /\ arg.ts = DT_NOBEGIN => result = IntResult(NOSTART_ABSTIME)
           /\ arg.ts = DT_NOEND => result = IntResult(NOEND_ABSTIME)

\* abstime_timestamp has taken NOSTART to the no-begin timestamp
C15_Witness ==
    /\ op = "abstime_timestamp"
    /\ t1 = NOSTART_ABSTIME
    /\ result = TimestampResult(DT_NOBEGIN)

\* the argument is a timestamp that is finite and has calendar fields
ValidTimestamp ==
    /\ arg.ts \notin {DT_NOBEGIN, DT_NOEND}
    /\ ~timestamp2tm(arg.ts).failed

\* C16 as stated: timestamp_abstime and timestamptz_abstime never return
\* INVALID_ABSTIME for a valid timestamp; a timestamp outside the range of
\* abstime is an error.
C16_AsStated ==
    op \in {"timestamp_abstime", "timestamptz_abstime"} /\ ValidTimestamp =>
        result # IntResult(INVALID_ABSTIME)

\* what the code does: a valid timestamp never raises an error; it gives
\* a real abstime, or INVALID_ABSTIME when its calendar day is outside
\* 13 December 1901 .. 18 January 2038
C16_SilentlyInvalid ==
    op \in {"timestamp_abstime", "timestamptz_abstime"} /\ ValidTimestamp =>
        /\ result.kind = "int"
        /\ \/ AbsoluteTimeIsReal(result.val)
           \/ result.val = INVALID_ABSTIME
        /\ LET tm == timestamp2tm(arg.ts).tm
               day == date2j(tm.tm_year, tm.tm_mon, tm.tm_mday) - UNIX_EPOCH_JDATE
           IN  day \notin MIN_DAYNUM .. MAX_DAYNUM =>
                   result.val = INVALID_ABSTIME

(***************************************************************************)
(* tm2abstime on calendar fields as the callers may hand them over.        *)
(***************************************************************************)
TmArg(tm, tz) == [kind |-> "tm", tm |-> tm, tz |-> tz]

Tm2abstime ==
    /\ op = "none"
    /\ Return("tm2abstime", IntResult(tm2abstime(arg.tm, arg.tz)))

YearsGiven == {1900, 1901, 1970, 2038, 2039}

MonthsOfYear == {0, 1, 12, 13}

DaysOfMonth == {0, 1, 13, 18, 19, 32}

HoursGiven == {-1, 0, 20, 24, 25}

MinutesGiven == {-1, 0, 45, 59, 60}

SecondsGiven == {-1, 0, 52, 60, 61}

InitTm ==
    /\ NoCall
    /\ t1 = 0
    /\ t2 = 0
    /\ i1 = NoInterval
    /\ i2 = NoInterval
    /\ buf = <<>>
    /\ str = <<>>
    /\ CTimeZone = 0
    /\ \E year \in YearsGiven, mon \in MonthsOfYear, mday \in DaysOfMonth,
          hour \in HoursGiven, min \in MinutesGiven, sec \in SecondsGiven,
          tz \in Zones :
           arg = TmArg(pg_tm(year, mon, mday, hour, min, sec), tz)

NextTm == Tm2abstime

SpecTm == InitTm /\ [][NextTm]_vars

(***************************************************************************)
(* Claims about tm2abstime (checked under SpecTm).                         *)
(***************************************************************************)
\* the day number of the argument's date
DayNumber == date2j(arg.tm.tm_year, arg.tm.tm_mon, arg.tm.tm_mday) - UNIX_EPOCH_JDATE

\* the exact value day*86400 + hour*3600 + min*60 + sec + tz
ExactSeconds ==
    WideAdd(WideMul(Wide(DayNumber), Wide(SECS_PER_DAY)),
            Wide((arg.tm.tm_hour * SECS_PER_HOUR)
                     + (arg.tm.tm_min * SECS_PER_MINUTE) + arg.tm.tm_sec + arg.tz))

\* the year, a field or the day number of the argument is out of range
FieldsRejected ==
    \/ arg.tm.tm_year \notin 1901 .. 2038
    \/ arg.tm.tm_mon \notin 1 .. 12
    \/ arg.tm.tm_mday \notin 1 .. 31
    \/ arg.tm.tm_hour \notin 0 .. 24
    \/ arg.tm.tm_hour = 24 /\ (arg.tm.tm_min # 0 \/ arg.tm.tm_sec # 0)
    \/ arg.tm.tm_min \notin 0 .. 59
    \/ arg.tm.tm_sec \notin 0 .. 60
    \/ DayNumber \notin MIN_DAYNUM .. MAX_DAYNUM

\* C17: tm2abstime returns INVALID_ABSTIME or a real abstime that is the
\* exact value day*86400 + hour*3600 + min*60 + sec + tz.  It returns
\* INVALID when the year, a field or the day number is out of range or the
\* value is reserved, and when the exact value is no int32, so that the
\* 32-bit sum has wrapped around: a wrapped value is never returned.
C17_ExactOrInvalid ==
    op = "tm2abstime" =>
        /\ \/ result.val = INVALID_ABSTIME
           \/ AbsoluteTimeIsReal(result.val) /\ Wide(result.val) = ExactSeconds
        /\ FieldsRejected => result.val = INVALID_ABSTIME
        /\ ~FitsInt32(ExactSeconds) => result.val = INVALID_ABSTIME
        /\ /\ ~FieldsRejected
           /\ FitsInt32(ExactSeconds)
           /\ AbsoluteTimeIsReal(ToInt32(ExactSeconds))
           => result.val = ToInt32(ExactSeconds)

\* midnight of 13 December 1901, Greenwich: the day is in range, the sum
\* has wrapped around, and tm2abstime has returned INVALID
C17_Witness ==
    /\ op = "tm2abstime"
    /\ arg = TmArg(pg_tm(1901, 12, 13, 0, 0, 0), 0)
    /\ ~FitsInt32(ExactSeconds)
    /\ result.val = INVALID_ABSTIME

(***************************************************************************)
(* reltimein: reltime text to reltime                                      *)
(***************************************************************************)
DAYS_PER_MONTH == 30

SECS_PER_YEAR == 36525 * 864

\* the int that holds the low 32 bits of a: bit 31 is bit 1 of digit 3
Wrap32(a) ==
    LET low == a[3] % 4
        neg == low >= 2
    IN  Digits([k \in 1 .. Limbs |->
                   CASE k < 3 -> a[k]
                     [] k = 3 -> IF neg THEN low + (LimbBase - 4) ELSE low
                     [] OTHER -> IF neg THEN LimbBase - 1 ELSE 0], 1)

\* a signed 32-bit operation whose exact result is x: when x is no int32
\* the behaviour is undefined; the value is then the low 32 bits or, for
\* what else a build may do with it, one of some other int32
Signed32(x) ==
    IF FitsInt32(x) THEN {x}
    ELSE {Wrap32(x), WideZero, Wide(INT_MIN), Wide(INT_MAX)}

\* the values result may have after lines 586-587, tm being the delta that
\* DecodeInterval decoded
reltime_flattened(tm) ==
    LET clock == Wide((((tm.tm_hour * MINS_PER_HOUR) + tm.tm_min) * SECS_PER_MINUTE)
                          + tm.tm_sec)
        days == Wide((tm.tm_mon * DAYS_PER_MONTH) + tm.tm_mday)
    IN  UNION {UNION {UNION {Signed32(WideAdd(clock, sum)) :
                                 sum \in Signed32(WideAdd(years, daysecs))} :
                          daysecs \in Signed32(WideMul(days, Wide(SECS_PER_DAY)))} :
                   years \in Signed32(WideMul(Wide(tm.tm_year), Wide(SECS_PER_YEAR)))}

\* reltimein - converts a reltime string in an internal format: the results
\* it may return
reltimein(s) ==
    LET field == SelectSeq(s, LAMBDA e : ~IsSpace(e))
    IN  IF Len(field) # 1 \/ field[1].c # "text"
        THEN {ErrorAbout("invalid input syntax for type reltime", s)}
        ELSE IF field[1].dtype # "DTK_DELTA"
        THEN {ErrorAbout("unexpected dtype while parsing reltime", s)}
        ELSE {IntResult(ToInt32(r)) : r \in reltime_flattened(field[1].tm)}

Reltimein ==
    /\ op = "none"
    /\ \E r \in reltimein(str) : Return("reltimein", r)

\* the deltas written: up to 137 years either way, months, days up to those
\* that make INT_MAX seconds, and a time of day
DeltasGiven ==
    {pg_tm(year, mon, mday, hour, min, sec) :
         year \in {0, 1, 68, 69, 100, 136, 137, -68, -69, -100},
         mon \in {0, 1, 11}, mday \in {0, 1, 24855}, hour \in {0, 23},
         min \in {0, 59}, sec \in 0 .. Near}

InitReltime ==
    /\ NoCall
    /\ arg = NoArg
    /\ t1 = 0
    /\ t2 = 0
    /\ i1 = NoInterval
    /\ i2 = NoInterval
    /\ buf = <<>>
    /\ CTimeZone = 0
    /\ \/ \E tm \in DeltasGiven : str = <<DateTimeText("DTK_DELTA", tm, 0)>>
       \/ str \in {<<Chr("bad")>>, <<DateTimeText("DTK_EPOCH", NoTm, 0)>>}

NextReltime == Reltimein

SpecReltime == InitReltime /\ [][NextReltime]_vars

(***************************************************************************)
(* Claims about reltimein (checked under SpecReltime).                     *)
(***************************************************************************)
\* the text is a delta
IsDelta == Len(str) = 1 /\ str[1].dtype = "DTK_DELTA"

\* the exact value ((hour*60 + min)*60 + sec) + year*SECS_PER_YEAR
\* + ((month*30) + day)*86400 of the delta
DeltaSeconds ==
    LET tm == str[1].tm
    IN  WideAdd(Wide((((tm.tm_hour * MINS_PER_HOUR) + tm.tm_min) * SECS_PER_MINUTE)
                         + tm.tm_sec),
                WideAdd(WideMul(Wide(tm.tm_year), Wide(SECS_PER_YEAR)),
                        WideMul(Wide((tm.tm_mon * DAYS_PER_MONTH) + tm.tm_mday),
                                Wide(SECS_PER_DAY))))

\* C18 as stated: reltimein returns the flattened value of the delta when
\* it is an int32, and when it is not (100 years) it does not return an
\* in-range number as if it were the value.
C18_AsStated ==
    op = "reltimein" /\ IsDelta =>
        IF FitsInt32(DeltaSeconds)
        THEN result = IntResult(ToInt32(DeltaSeconds))
        ELSE result.kind # "int" \/ result.val = INVALID_RELTIME

\* no int operation of the flattening overflows
NoOverflow32 ==
    LET tm == str[1].tm
        years == WideMul(Wide(tm.tm_year), Wide(SECS_PER_YEAR))
        daysecs == WideMul(Wide((tm.tm_mon * DAYS_PER_MONTH) + tm.tm_mday),
                           Wide(SECS_PER_DAY))
    IN  /\ FitsInt32(years)
        /\ FitsInt32(daysecs)
        /\ FitsInt32(WideAdd(years, daysecs))
        /\ FitsInt32(DeltaSeconds)

\* what the code keeps: the flattened value wherever no int operation
\* overflows; there is no guard
C18_WithoutOverflow ==
    op = "reltimein" /\ IsDelta /\ NoOverflow32 =>
        result = IntResult(ToInt32(DeltaSeconds))

(***************************************************************************)
(* tintervalrel and the length predicates: tinterval length against a      *)
(* reltime                                                                 *)
(***************************************************************************)
\* the int32 difference of the endpoints of a VALID interval whose
\* endpoints are both real, INVALID_RELTIME otherwise
tintervalrel(tinterval) ==
    LET t1_ == tinterval.data[1]
        t2_ == tinterval.data[2]
    IN  IF tinterval.status # T_INTERVAL_VALID THEN INVALID_RELTIME
        ELSE IF AbsoluteTimeIsReal(t1_) /\ AbsoluteTimeIsReal(t2_)
             THEN sub32(t2_, t1_)
             ELSE INVALID_RELTIME

tintervalleneq(i, t) ==
    IF i.status = T_INTERVAL_INVAL \/ t = INVALID_RELTIME THEN FALSE
    ELSE LET rt == tintervalrel(i) IN rt # INVALID_RELTIME /\ rt = t

\* mutant: ne as the negation of eq
tintervallenne_complement(i, t) == ~tintervalleneq(i, t)

tintervallenne(i, t) ==
    IF i.status = T_INTERVAL_INVAL \/ t = INVALID_RELTIME THEN FALSE
    ELSE LET rt == tintervalrel(i) IN rt # INVALID_RELTIME /\ rt # t

tintervallenlt(i, t) ==
    IF i.status = T_INTERVAL_INVAL \/ t = INVALID_RELTIME THEN FALSE
    ELSE LET rt == tintervalrel(i) IN rt # INVALID_RELTIME /\ rt < t

tintervallengt(i, t) ==
    IF i.status = T_INTERVAL_INVAL \/ t = INVALID_RELTIME THEN FALSE
    ELSE LET rt == tintervalrel(i) IN rt # INVALID_RELTIME /\ rt > t

tintervallenle(i, t) ==
    IF i.status = T_INTERVAL_INVAL \/ t = INVALID_RELTIME THEN FALSE
    ELSE LET rt == tintervalrel(i) IN rt # INVALID_RELTIME /\ rt <= t

tintervallenge(i, t) ==
    IF i.status = T_INTERVAL_INVAL \/ t = INVALID_RELTIME THEN FALSE
    ELSE LET rt == tintervalrel(i) IN rt # INVALID_RELTIME /\ rt >= t

Tintervalleneq ==
    /\ op = "none"
    /\ Return("tintervalleneq", BoolResult(tintervalleneq(i1, t2)))

Tintervallenne ==
    /\ op = "none"
    /\ Return("tintervallenne", BoolResult(tintervallenne(i1, t2)))

Tintervallenlt ==
    /\ op = "none"
    /\ Return("tintervallenlt", BoolResult(tintervallenlt(i1, t2)))

Tintervallengt ==
    /\ op = "none"
    /\ Return("tintervallengt", BoolResult(tintervallengt(i1, t2)))

Tintervallenle ==
    /\ op = "none"
    /\ Return("tintervallenle", BoolResult(tintervallenle(i1, t2)))

Tintervallenge ==
    /\ op = "none"
    /\ Return("tintervallenge", BoolResult(tintervallenge(i1, t2)))

\* the intervals a caller can hold: tintervalrecv accepts any pair of
\* endpoints with the status they imply, and mktinterval leaves the
\* endpoints of an INVAL interval as they were
InitLen ==
    /\ NoCall
    /\ arg = NoArg
    /\ t1 = 0
    /\ t2 \in Int32Values
    /\ \E status \in {T_INTERVAL_INVAL, T_INTERVAL_VALID} :
       \E start \in Int32Values : \E end \in Int32Values :
          /\ status = T_INTERVAL_VALID =>
                start # INVALID_ABSTIME /\ end # INVALID_ABSTIME
          /\ i1 = TimeIntervalData(status, start, end)
    /\ i2 = NoInterval
    /\ buf = <<>>
    /\ str = <<>>
    /\ CTimeZone = 0

NextLen ==
    \/ Tintervalleneq
    \/ Tintervallenne
    \/ Tintervallenlt
    \/ Tintervallengt
    \/ Tintervallenle
    \/ Tintervallenge

SpecLen == InitLen /\ [][NextLen]_vars

LengthPredicates ==
    {"tintervalleneq", "tintervallenne", "tintervallenlt",
     "tintervallengt", "tintervallenle", "tintervallenge"}

\* the relation a length predicate is named after, between wide integers
Named(name, a, b) ==
    LET less == WideIsNeg(WideAdd(a, WideNeg(b)))
        more == WideIsNeg(WideAdd(b, WideNeg(a)))
    IN  CASE name = "tintervalleneq" -> ~less /\ ~more
          [] name = "tintervallenne" -> less \/ more
          [] name = "tintervallenlt" -> less
          [] name = "tintervallengt" -> more
          [] name = "tintervallenle" -> ~more
          [] name = "tintervallenge" -> ~less

\* the cases the claim lists: status INVAL, an endpoint that is not a real
\* AbsoluteTime, or t = INVALID_RELTIME
NoLength ==
    \/ i1.status = T_INTERVAL_INVAL
    \/ ~AbsoluteTimeIsReal(i1.data[1])
    \/ ~AbsoluteTimeIsReal(i1.data[2])
    \/ t2 = INVALID_RELTIME

\* end - start, exactly
ExactLength == WideAdd(Wide(i1.data[2]), WideNeg(Wide(i1.data[1])))

C20_RoundTrip ==
    /\ op = "timepl" /\ result.val # INVALID_ABSTIME =>
          timemi(result.val, t2) = t1
    /\ op = "timemi" /\ result.val # INVALID_ABSTIME =>
          timepl(result.val, t2) = t1

\* C20 witness: timepl has moved a time by a non-zero amount to the last
\* value below NOEND, and timemi brings it back
C20_Witness ==
    /\ op = "timepl"
    /\ t2 # 0
    /\ result.val = NOEND_ABSTIME - 1
    /\ timemi(result.val, t2) = t1

(***************************************************************************)
(* reltime_interval: reltime to Interval {time, day, month}                *)
(***************************************************************************)
\* what reltime_interval returns
IntervalValue(interval) == [IntResult(0) EXCEPT !.kind = "interval", !.val = interval]

reltime_interval(reltime) ==
    IF reltime = INVALID_RELTIME
    THEN ErrorResult("cannot convert reltime \"invalid\" to interval")
    ELSE LET year == cdiv(reltime, SECS_PER_YEAR)
             r1 == reltime - (year * SECS_PER_YEAR)
             month == cdiv(r1, DAYS_PER_MONTH * SECS_PER_DAY)
             r2 == r1 - (month * (DAYS_PER_MONTH * SECS_PER_DAY))
             day == cdiv(r2, SECS_PER_DAY)
             r3 == r2 - (day * SECS_PER_DAY)
         IN  IntervalValue(Interval(WideMul(Wide(r3), Wide(USECS_PER_SEC)),
                                    day, (MONTHS_PER_YEAR * year) + month))

Reltime_interval ==
    /\ op = "none"
    /\ Return("reltime_interval", reltime_interval(t1))

\* whole years either way, up to the 67 that leave room below INT_MAX
YearsOfReltime == {0, 1, 67}

\* what is left after the years: about a day, about a month, about the
\* 360 days that make twelve months, and the last second of a year
RestOfReltime ==
    {0, 1, SECS_PER_DAY - 1, SECS_PER_DAY,
     (DAYS_PER_MONTH * SECS_PER_DAY) - 1, DAYS_PER_MONTH * SECS_PER_DAY,
     (360 * SECS_PER_DAY) - 1, 360 * SECS_PER_DAY, (360 * SECS_PER_DAY) + 1,
     SECS_PER_YEAR - 1}

ReltimesGiven ==
    Int32Values \cup
        {sign * ((y * SECS_PER_YEAR) + rest) :
            sign \in {1, -1}, y \in YearsOfReltime, rest \in RestOfReltime}

InitRelInt ==
    /\ NoCall
    /\ arg = NoArg
    /\ t1 \in ReltimesGiven
    /\ t2 = 0
    /\ i1 = NoInterval
    /\ i2 = NoInterval
    /\ buf = <<>>
    /\ str = <<>>
    /\ CTimeZone = 0

NextRelInt == Reltime_interval

SpecRelInt == InitRelInt /\ [][NextRelInt]_vars

\* interval_reltime of the Interval returned can only be r
BackTo(r) ==
    \A span \in interval_span(result.val) :
        interval_reltime(result.val, span) = r

\* C21 as stated: for every r other than INVALID_RELTIME, reltime_interval
\* succeeds and interval_reltime of its result is r again, also where the
\* month quotient reaches 12.
C21_AsStated ==
    op = "reltime_interval" /\ t1 # INVALID_RELTIME =>
        result.kind = "interval" /\ BackTo(t1)

\* what is left of r after its whole years of 365.25 days
RestOfYear(r) == r - (cdiv(r, SECS_PER_YEAR) * SECS_PER_YEAR)

\* what the code keeps: reltime_interval succeeds for every valid r, and
\* interval_reltime gives r back exactly when less than 360 days are left
\* after the whole years; otherwise the twelve months count as one more
\* year of 365.25 days and 5.25 days are added to (or taken from) r
C21_BelowTwelveMonths ==
    op = "reltime_interval" /\ t1 # INVALID_RELTIME =>
        /\ result.kind = "interval"
        /\ IF -(360 * SECS_PER_DAY) < RestOfYear(t1)
                /\ RestOfYear(t1) < 360 * SECS_PER_DAY
           THEN BackTo(t1)
           ELSE \/ BackTo(t1 + (SECS_PER_YEAR - (360 * SECS_PER_DAY)))
                \/ BackTo(t1 - (SECS_PER_YEAR - (360 * SECS_PER_DAY)))

(***************************************************************************)
(* tintervalin on what tintervalout writes: i1 is an interval that         *)
(* mktinterval or tintervalin returned, str what tintervalout writes for   *)
(* it.                                                                     *)
(***************************************************************************)
\* the intervals mktinterval and tintervalin return for the endpoints a, b
Constructed(a, b, zone) ==
    {mktinterval(a, b, palloc) : palloc \in Uninitialized}
        \cup {r.iv : r \in {r \in {tintervalin(TintervalLiteral(
                                       abstimeout(a, zone),
                                       abstimeout(b, zone), 0))} :
                              r.kind = "tinterval"}}

InitText ==
    /\ NoCall
    /\ arg = NoArg
    /\ t1 \in Int32Values
    /\ t2 \in Int32Values
    /\ CTimeZone \in Zones
    /\ i1 \in Constructed(t1, t2, CTimeZone)
    /\ i2 = NoInterval
    /\ buf = <<>>
    /\ str = tintervalout(i1, CTimeZone)

NextText == Tintervalin

SpecText == InitText /\ [][NextText]_vars

\* C22 as stated: the text tintervalout writes for an interval that
\* tintervalin or mktinterval returned is accepted by tintervalin and
\* decodes to an interval of the same status and, when VALID, the same
\* endpoints; the rendering of an INVAL interval is accepted too.
C22_AsStated ==
    op = "tintervalin" =>
        /\ result.kind = "tinterval"
        /\ result.iv.status = i1.status
        /\ i1.status = T_INTERVAL_VALID => result.iv.data = i1.data

\* the abstime that abstimein reads from what abstimeout writes for time
Reread(time) == abstimein(abstimeout(time, CTimeZone)).val

\* what the code keeps: the rendering of an INVAL interval is the tinterval
\* syntax error; a VALID interval is accepted and each endpoint comes back
\* as abstimein reads what abstimeout wrote for it, so the interval comes
\* back unchanged when both endpoints do, and INVAL when one of them is
\* read as INVALID
C22_ValidAsReread ==
    op = "tintervalin" =>
        IF i1.status = T_INTERVAL_INVAL
        THEN result = ErrorAbout(TintervalSyntaxError, str)
        ELSE /\ result.kind = "tinterval"
             /\ result.iv.status = T_INTERVAL_INVAL <=>
                    \/ Reread(i1.data[1]) = INVALID_ABSTIME
                    \/ Reread(i1.data[2]) = INVALID_ABSTIME
             /\ Reread(i1.data[1]) = i1.data[1]
                    /\ Reread(i1.data[2]) = i1.data[2]
                => result.iv = i1

(***************************************************************************)
(* tintervalrecv on what tintervalsend writes: i1 is an interval that      *)
(* mktinterval or tintervalin returned, buf the message tintervalsend      *)
(* writes for it.                                                          *)
(***************************************************************************)
InitBinary ==
    /\ NoCall
    /\ arg = NoArg
    /\ t1 \in Int32Values
    /\ t2 \in Int32Values
    /\ CTimeZone \in Zones
    /\ i1 \in Constructed(t1, t2, CTimeZone)
    /\ i2 = NoInterval
    /\ buf = tintervalsend(i1)
    /\ str = <<>>

NextBinary == Tintervalrecv

SpecBinary == InitBinary /\ [][NextBinary]_vars

\* C23 as stated: tintervalrecv of what tintervalsend writes for an
\* interval that tintervalin or mktinterval returned succeeds and returns
\* the same status, start and end, also for the INVAL interval whose
\* endpoints mktinterval did not assign.
C23_AsStated ==
    op = "tintervalrecv" => result = IntervalResult(i1)

\* the status is the one the endpoints imply
StatusImplied(i) ==
    i.status = T_INTERVAL_INVAL <=>
        i.data[1] = INVALID_ABSTIME \/ i.data[2] = INVALID_ABSTIME

\* what the code keeps: the interval comes back unchanged exactly when its
\* status is the one its endpoints imply, which every interval of
\* tintervalin and every VALID interval of mktinterval satisfy; an INVAL
\* interval of mktinterval whose unassigned endpoints hold no INVALID is
\* refused with the status error
C23_WhereStatusImplied ==
    op = "tintervalrecv" =>
        /\ i1.status = T_INTERVAL_VALID => StatusImplied(i1)
        /\ IF StatusImplied(i1)
           THEN result = IntervalResult(i1)
           ELSE result = ErrorResult("invalid status in external tinterval value")

====
